---- MODULE Spec2Model ----
(***************************************************************************)
(* A model of the goji request router: the pattern compiler and matcher    *)
(* (SpecMatcher), the request context chain, and the trie router          *)
(* (router.Handle, router.Route) with its reference simpleRouter.          *)
(*                                                                         *)
(* Go strings are modelled as sequences of one-character strings; Ord      *)
(* gives a character's byte value, which is what Go compares.  Slice       *)
(* indices are kept 0-based as in the source and shifted by one where a    *)
(* TLA+ sequence is indexed.                                               *)
(***************************************************************************)
EXTENDS Integers, Sequences, FiniteSets, TLC

VARIABLES
  routes,    \* r.routes of the router
  methods,   \* r.methods: the per-method tries
  wildcard,  \* r.wildcard: the trie of the unrestricted routes
  pat,       \* the compiled pattern under test, with how it was built
  request,   \* the request of the latest call (NilReq when it took none)
  last,      \* the latest call and what it returned
  mux,       \* the Mux in front of the router (NoMux when there is none)
  uses,      \* the middleware given to Use so far, in the order of the calls
  disp       \* the goroutines that call Route at once, each with its position

vars == <<routes, methods, wildcard, pat, request, last, mux, uses, disp>>

-----------------------------------------------------------------------------
(* Bytes and strings *)

\* The byte value of each character the model uses.
Ord ==
  ("%" :> 37) @@ ("*" :> 42) @@ ("," :> 44) @@ ("." :> 46) @@ ("/" :> 47) @@
  ("0" :> 48) @@ ("2" :> 50) @@ (":" :> 58) @@ (";" :> 59) @@
  ("a" :> 97) @@ ("b" :> 98) @@ ("c" :> 99) @@ ("e" :> 101) @@ ("f" :> 102) @@
  ("n" :> 110) @@ (" " :> 32)

\* s[from:] of Go, from 0-based.
SliceFrom(s, from) == SubSeq(s, from + 1, Len(s))

\* s[from:to] of Go, 0-based, to exclusive.
Slice(s, from, to) == SubSeq(s, from + 1, to)

\* strings.HasPrefix
HasPrefix(s, prefix) ==
  Len(s) >= Len(prefix) /\ SubSeq(s, 1, Len(prefix)) = prefix

\* strings.HasSuffix
HasSuffix(s, suffix) ==
  Len(s) >= Len(suffix) /\ SubSeq(s, Len(s) - Len(suffix) + 1, Len(s)) = suffix

\* Go's a < b on strings: bytewise lexicographic order.
RECURSIVE StrLess(_, _)
StrLess(a, b) ==
  IF Len(b) = 0 THEN FALSE
  ELSE IF Len(a) = 0 THEN TRUE
  ELSE IF Ord[a[1]] # Ord[b[1]] THEN Ord[a[1]] < Ord[b[1]]
  ELSE StrLess(Tail(a), Tail(b))

\* longestPrefix(a, b): the longest common prefix of a and b.
RECURSIVE longestPrefixLen(_, _, _, _)
longestPrefixLen(a, b, i, mlen) ==
  IF i < mlen
  THEN IF a[i + 1] # b[i + 1] THEN i ELSE longestPrefixLen(a, b, i + 1, mlen)
  ELSE mlen

longestPrefix(a, b) ==
  LET mlen == IF Len(b) < Len(a) THEN Len(b) ELSE Len(a)
  IN  Slice(a, 0, longestPrefixLen(a, b, 0, mlen))

-----------------------------------------------------------------------------
(* Values and context keys *)

\* The nil interface value.
Nil == [t |-> "nil"]

StringVal(s) == [t |-> "string", v |-> s]
IntVal(n) == [t |-> "int", v |-> n]
MatcherVal(m) == [t |-> "Matcher", v |-> m]
HandlerVal(h) == [t |-> "Handler", v |-> h]
MapVal(f) == [t |-> "map", v |-> f]

matcherKey == [type |-> "contextKey", id |-> <<"0">>]
handlerKey == [type |-> "contextKey", id |-> <<"1">>]
pathKey == [type |-> "contextKey", id |-> <<"2">>]
allNames == [type |-> "struct{}", id |-> <<>>]
nameKey(name) == [type |-> "nameKey", id |-> name]

\* context.Background(): the empty chain.  A context is the sequence of its
\* layers, outermost first; the last element is the innermost layer.
Background == <<>>

\* context.WithValue
WithValue(ctx, key, val) ==
  Append(ctx, [kind |-> "valueCtx", key |-> key, val |-> val])

WithPath(ctx, path) == WithValue(ctx, pathKey, StringVal(path))
WithMatcher(ctx, matcher) == WithValue(ctx, matcherKey, MatcherVal(matcher))
WithHandler(ctx, handler) == WithValue(ctx, handlerKey, HandlerVal(handler))

\* sort.Search over m.spec.specs with the predicate specs[i].name >= k.
RECURSIVE searchName(_, _, _, _)
searchName(specs, k, i, j) ==
  IF i < j
  THEN LET h == (i + j) \div 2
       IN  IF StrLess(specs[h + 1].name, k)
           THEN searchName(specs, k, h + 1, j)
           ELSE searchName(specs, k, i, h)
  ELSE i

\* A map of all names in which the enclosing map keeps the names it binds.
allNamesOfEnclosingFirst(parent, spec, matches) ==
  LET bound == {spec.specs[i].name : i \in 1..Len(spec.specs)}
      slot(n) == (CHOOSE i \in 1..Len(spec.specs) :
                    /\ spec.specs[i].name = n
                    /\ \A j \in (i + 1)..Len(spec.specs) : spec.specs[j].name # n)
      base == IF parent.t = "nil" THEN <<>> ELSE parent.v
  IN  IF parent.t = "nil" /\ Len(spec.specs) = 0
      THEN Nil
      ELSE MapVal([n \in bound \cup DOMAIN base |->
                     IF n \in DOMAIN base
                     THEN base[n]
                     ELSE StringVal(matches[spec.specs[slot(n)].idx + 1])])

\* The map a matchContext returns for allNames: the enclosing map (or a new
\* one) with every capture of the pattern written over it.
allNamesOf(parent, spec, matches) ==
  LET bound == {spec.specs[i].name : i \in 1..Len(spec.specs)}
      slot(n) == (CHOOSE i \in 1..Len(spec.specs) :
                    /\ spec.specs[i].name = n
                    /\ \A j \in (i + 1)..Len(spec.specs) : spec.specs[j].name # n)
      base == IF parent.t = "nil" THEN <<>> ELSE parent.v
  IN  IF parent.t = "nil" /\ Len(spec.specs) = 0
      THEN Nil
      ELSE MapVal([n \in bound \cup DOMAIN base |->
                     IF n \in bound
                     THEN StringVal(matches[spec.specs[slot(n)].idx + 1])
                     ELSE base[n]])

\* A path lookup that returns the last match whether or not the pattern is
\* a wildcard.
matchContextPathLast(m) ==
  IF Len(m.matches) > 0
  THEN StringVal(m.matches[Len(m.matches)])
  ELSE StringVal(<<>>)

\* case pathKey of matchContext.Value: the wildcard capture when there is
\* one more match than names, "" otherwise.
matchContextPath(m) ==
  IF Len(m.matches) = Len(m.spec.specs) + 1
  THEN StringVal(m.matches[Len(m.matches)])
  ELSE StringVal(<<>>)

\* A name lookup that takes the position in the sorted names for the slot.
matchContextNameSorted(m, i) == StringVal(m.matches[i + 1])

\* m.matches[m.spec.specs[i].idx]: the match in the slot of the i-th name
\* (0-based) of the sorted names.
matchContextName(m, i) == StringVal(m.matches[m.spec.specs[i + 1].idx + 1])

\* ctx.Value(key), dispatched on the dynamic type of the innermost layer:
\* context.valueCtx, match.Value and matchContext.Value.
RECURSIVE Value(_, _)
Value(ctx, key) ==
  IF Len(ctx) = 0 THEN Nil
  ELSE
    LET m == ctx[Len(ctx)]
        parent == SubSeq(ctx, 1, Len(ctx) - 1)
    IN  CASE m.kind = "valueCtx" ->
               IF m.key = key THEN m.val ELSE Value(parent, key)
          [] m.kind = "match" ->
               IF key = matcherKey THEN m.matcher
               ELSE IF key = handlerKey THEN m.handler
               ELSE Value(parent, key)
          [] m.kind = "matchContext" ->
               IF key = allNames
               THEN allNamesOf(Value(parent, key), m.spec, m.matches)
               ELSE IF key = pathKey
               THEN matchContextPath(m)
               ELSE
                 LET i == IF key.type = "nameKey"
                          THEN searchName(m.spec.specs, key.id, 0, Len(m.spec.specs))
                          ELSE Len(m.spec.specs)
                 IN  IF /\ key.type = "nameKey"
                        /\ i < Len(m.spec.specs)
                        /\ m.spec.specs[i + 1].name = key.id
                     THEN matchContextName(m, i)
                     ELSE Value(parent, key)

\* Path(ctx): the path value, or "" when none is bound.
Path(ctx) ==
  LET path == Value(ctx, pathKey)
  IN  IF path.t # "nil" THEN path.v ELSE <<>>

\* A Param that reads an unbound name as "".
ParamOrEmpty(req, name) ==
  LET v == Value(req.ctx, nameKey(name))
  IN  IF v.t = "string" THEN [kind |-> "return", v |-> v.v]
      ELSE [kind |-> "return", v |-> <<>>]

\* Param(req, name): the string bound to the name; the type assertion to
\* string panics on nil and on a value of another type.
Param(req, name) ==
  LET v == Value(req.ctx, nameKey(name))
  IN  IF v.t = "string" THEN [kind |-> "return", v |-> v.v]
      ELSE [kind |-> "panic"]

\* The layers of ctx that are a valueCtx holding the key allNames.
allNamesLayers(ctx) ==
  {j \in 1..Len(ctx) : ctx[j].kind = "valueCtx" /\ ctx[j].key = allNames}

\* The context chain after ctx.Value(key) has run.  For allNames every
\* matchContext writes its captures into the map its parent returned: when
\* a valueCtx below holds that map, it is the stored map that is written,
\* and it ends up equal to the map the call returns.  No other key writes.
ValueWrites(ctx, key) ==
  IF key = allNames /\ allNamesLayers(ctx) # {}
  THEN LET j == CHOOSE j \in allNamesLayers(ctx) :
                  \A k \in allNamesLayers(ctx) : k <= j
       IN  [ctx EXCEPT ![j].val = Value(ctx, allNames)]
  ELSE ctx

-----------------------------------------------------------------------------
(* Percent-decoding *)

ishex(c) ==
  \/ 48 <= Ord[c] /\ Ord[c] <= 57
  \/ 97 <= Ord[c] /\ Ord[c] <= 102
  \/ 65 <= Ord[c] /\ Ord[c] <= 70

unhex(c) ==
  IF 48 <= Ord[c] /\ Ord[c] <= 57 THEN Ord[c] - 48
  ELSE IF 97 <= Ord[c] /\ Ord[c] <= 102 THEN Ord[c] - 97 + 10
  ELSE IF 65 <= Ord[c] /\ Ord[c] <= 70 THEN Ord[c] - 65 + 10
  ELSE 0

\* The character of a byte value; a byte outside the model's alphabet is
\* written "?".
Chr(v) ==
  IF \E c \in DOMAIN Ord : Ord[c] = v
  THEN CHOOSE c \in DOMAIN Ord : Ord[c] = v
  ELSE "?"

\* unescape(s): every %XX replaced by the byte it encodes; an error when a
\* '%' is not followed by two hex digits.
RECURSIVE unescape(_)
unescape(s) ==
  IF Len(s) = 0 THEN [err |-> FALSE, s |-> <<>>]
  ELSE IF s[1] = "%"
  THEN IF Len(s) < 3 \/ ~ishex(s[2]) \/ ~ishex(s[3])
       THEN [err |-> TRUE, s |-> <<>>]
       ELSE LET rest == unescape(SliceFrom(s, 3))
            IN  IF rest.err THEN rest
                ELSE [err |-> FALSE,
                      s |-> <<Chr(16 * unhex(s[2]) + unhex(s[3]))>> \o rest.s]
  ELSE LET rest == unescape(Tail(s))
       IN  IF rest.err THEN rest
           ELSE [err |-> FALSE, s |-> <<s[1]>> \o rest.s]

-----------------------------------------------------------------------------
(* The pattern compiler: New and the per-method constructors *)

\* The bytes of the character class [/.;,] of breaksRE.
Breaks == {"/", ".", ";", ","}

\* A nil map[string]struct{} and a non-nil one holding the set S.
NilMethods == [isNil |-> TRUE, set |-> {}]
MethodSet(S) == [isNil |-> FALSE, set |-> S]

\* WithMethod(methods...): the option that sets p.methods.
WithMethod(ms) == [methods |-> {ms[i] : i \in 1..Len(ms)}]

\* Options that add their methods to the set of the options before them.
RECURSIVE applyOptsAdding(_, _)
applyOptsAdding(ms, opts) ==
  IF Len(opts) = 0 THEN ms
  ELSE applyOptsAdding(MethodSet(ms.set \cup Head(opts).methods), Tail(opts))

\* for _, o := range opts { o(p) }: each option overwrites p.methods.
RECURSIVE applyOpts(_, _)
applyOpts(ms, opts) ==
  IF Len(opts) = 0 THEN ms
  ELSE applyOpts(MethodSet(Head(opts).methods), Tail(opts))

\* The end (exclusive, 0-based) of the maximal run [^/.;,]+ starting at b.
RECURSIVE nameEnd(_, _)
nameEnd(text, b) ==
  IF b < Len(text) /\ text[b + 1] \notin Breaks
  THEN nameEnd(text, b + 1)
  ELSE b

\* breaksRE.FindAllStringSubmatchIndex(pat, -1): the leftmost, non-overlapping
\* matches of [/.;,]:([^/.;,]+) from pos on, each as the bounds [a, b) of its
\* submatch (the name).
RECURSIVE findAll(_, _)
findAll(text, pos) ==
  IF pos + 3 > Len(text) THEN <<>>
  ELSE IF /\ text[pos + 1] \in Breaks
          /\ text[pos + 2] = ":"
          /\ text[pos + 3] \notin Breaks
  THEN LET b == nameEnd(text, pos + 3)
       IN  <<[a |-> pos + 2, b |-> b]>> \o findAll(text, b)
  ELSE findAll(text, pos + 1)

\* sort.Sort(p.specs): for fewer than 12 elements Go's sort is an insertion
\* sort, ordered by name.
RECURSIVE insertSpec(_, _)
insertSpec(sorted, x) ==
  IF Len(sorted) > 0 /\ StrLess(x.name, sorted[Len(sorted)].name)
  THEN Append(insertSpec(SubSeq(sorted, 1, Len(sorted) - 1), x),
              sorted[Len(sorted)])
  ELSE Append(sorted, x)

RECURSIVE sortSpecs(_)
sortSpecs(s) ==
  IF Len(s) = 0 THEN <<>>
  ELSE insertSpec(sortSpecs(SubSeq(s, 1, Len(s) - 1)), s[Len(s)])

\* n at the start of iteration i (0-based) of the loop over the matches.
litStart(matches, i) == IF i = 0 THEN 0 ELSE matches[i].b

\* New(pat, opts...)
New(raw, opts) ==
  LET wild == HasSuffix(raw, <<"/", "*">>)
      text == IF wild THEN Slice(raw, 0, Len(raw) - 1) ELSE raw
      matches == findAll(text, 0)
      numMatches == Len(matches)
  IN  [kind |-> "SpecMatcher",
       raw |-> raw,
       methods |-> applyOpts(NilMethods, opts),
       specs |-> sortSpecs([i \in 1..numMatches |->
                   [name |-> Slice(text, matches[i].a, matches[i].b),
                    idx |-> i - 1]]),
       breaks |-> [i \in 1..numMatches |->
                   IF matches[i].b = Len(text) THEN "/"
                   ELSE text[matches[i].b + 1]],
       literals |-> [i \in 1..(numMatches + 1) |->
                   IF i <= numMatches
                   THEN Slice(text, litStart(matches, i - 1), matches[i].a - 1)
                   ELSE SliceFrom(text, litStart(matches, numMatches))],
       wildcard |-> wild]

Delete(raw) == New(raw, <<WithMethod(<<"DELETE">>)>>)

\* A Get that leaves HEAD out of the method set.
GetWithoutHead(raw) == New(raw, <<WithMethod(<<"GET">>)>>)

\* Get(pat): the GET and HEAD methods.
Get(raw) == New(raw, <<WithMethod(<<"GET", "HEAD">>)>>)

HeadOnly(raw) == New(raw, <<WithMethod(<<"HEAD">>)>>)
Options(raw) == New(raw, <<WithMethod(<<"OPTIONS">>)>>)
Patch(raw) == New(raw, <<WithMethod(<<"PATCH">>)>>)
Post(raw) == New(raw, <<WithMethod(<<"POST">>)>>)
Put(raw) == New(raw, <<WithMethod(<<"PUT">>)>>)

-----------------------------------------------------------------------------
(* SpecMatcher.Match *)

\* A nil *http.Request.
NilReq == [isNil |-> TRUE]

\* An *http.Request: its method and its context.
Request(method, ctx) == [isNil |-> FALSE, method |-> method, ctx |-> ctx]

\* req.WithContext(ctx)
WithContext(req, ctx) == [req EXCEPT !.ctx = ctx]

\* A scan that stops at bc alone.
RECURSIVE spanLenToBreak(_, _, _)
spanLenToBreak(path, bc, m) ==
  IF m < Len(path) /\ path[m + 1] # bc
  THEN spanLenToBreak(path, bc, m + 1)
  ELSE m

\* The scan for ; m < len(path); m++ that stops at bc or '/'.
RECURSIVE spanLen(_, _, _)
spanLen(path, bc, m) ==
  IF m < Len(path) /\ path[m + 1] # bc /\ path[m + 1] # "/"
  THEN spanLen(path, bc, m + 1)
  ELSE m

\* A loop that lets an empty span through.
RECURSIVE matchLoopEmptySpan(_, _, _, _)
matchLoopEmptySpan(p, i, path, scratch) ==
  IF i >= Len(p.specs) THEN [ok |-> TRUE, path |-> path, scratch |-> scratch]
  ELSE
    LET sli == p.literals[i + 1]
        rest == SliceFrom(path, Len(sli))
        m == spanLen(rest, p.breaks[i + 1], 0)
    IN  IF ~HasPrefix(path, sli) THEN [ok |-> FALSE, path |-> path, scratch |-> scratch]
        ELSE matchLoopEmptySpan(p, i + 1, SliceFrom(rest, m),
                                [scratch EXCEPT ![i + 1] = Slice(rest, 0, m)])

\* The loop for i := range p.specs, from iteration i (0-based) on.
RECURSIVE matchLoop(_, _, _, _)
matchLoop(p, i, path, scratch) ==
  IF i >= Len(p.specs) THEN [ok |-> TRUE, path |-> path, scratch |-> scratch]
  ELSE
    LET sli == p.literals[i + 1]
        rest == SliceFrom(path, Len(sli))
        m == spanLen(rest, p.breaks[i + 1], 0)
    IN  IF ~HasPrefix(path, sli) THEN [ok |-> FALSE, path |-> path, scratch |-> scratch]
        ELSE IF m = 0 THEN [ok |-> FALSE, path |-> rest, scratch |-> scratch]
        ELSE matchLoop(p, i + 1, SliceFrom(rest, m),
                       [scratch EXCEPT ![i + 1] = Slice(rest, 0, m)])

\* A comparison that takes the last literal as a prefix for every pattern.
tailOkPrefix(p, path, tail) == HasPrefix(path, tail)

\* The comparison with the last literal: a prefix of what remains for a
\* wildcard, all that remains otherwise.
tailOk(p, path, tail) ==
  IF p.wildcard THEN HasPrefix(path, tail) ELSE path = tail

\* A wildcard capture that starts after the last literal.
remainderAfterTail(path, tail) == SliceFrom(path, Len(tail))

\* path[len(tail)-1:], the wildcard capture: what follows the last literal
\* and the literal's final byte before it.
remainder(path, tail) == SliceFrom(path, Len(tail) - 1)

\* Match up to the last literal: the raw (still escaped) capture spans,
\* and for a wildcard the remaining path in the last slot.
matchRaw(p, req) ==
  LET path == Path(req.ctx)
      n == Len(p.specs)
      scratch == IF p.wildcard THEN [i \in 1..(n + 1) |-> <<>>]
                 ELSE [i \in 1..n |-> <<>>]
      loop == matchLoop(p, 0, path, scratch)
      tail == p.literals[n + 1]
  IN  IF ~p.methods.isNil /\ req.method \notin p.methods.set
      THEN [ok |-> FALSE, scratch |-> scratch]
      ELSE IF ~loop.ok THEN [ok |-> FALSE, scratch |-> loop.scratch]
      ELSE IF ~tailOk(p, loop.path, tail)
      THEN [ok |-> FALSE, scratch |-> loop.scratch]
      ELSE IF p.wildcard
      THEN [ok |-> TRUE,
            scratch |-> [loop.scratch EXCEPT
                           ![n + 1] = remainder(loop.path, tail)]]
      ELSE [ok |-> TRUE, scratch |-> loop.scratch]

\* A loop that keeps the raw span of a capture it cannot decode.
unescapeAllLenient(p, scratch) ==
  [err |-> FALSE,
   scratch |-> [i \in 1..Len(scratch) |->
                  IF i <= Len(p.specs) /\ ~unescape(scratch[i]).err
                  THEN unescape(scratch[i]).s
                  ELSE scratch[i]]]

\* The loop that unescapes scratch[i] for i := range p.specs.
unescapeAll(p, scratch) ==
  [err |-> \E i \in 1..Len(p.specs) : unescape(scratch[i]).err,
   scratch |-> [i \in 1..Len(scratch) |->
                  IF i <= Len(p.specs) THEN unescape(scratch[i]).s
                  ELSE scratch[i]]]

\* (p *SpecMatcher).Match(req)
SpecMatch(p, req) ==
  LET raw == matchRaw(p, req)
      dec == unescapeAll(p, raw.scratch)
  IN  IF ~raw.ok \/ dec.err THEN NilReq
      ELSE WithContext(req, Append(req.ctx,
             [kind |-> "matchContext", spec |-> p, matches |-> dec.scratch]))

\* (p *SpecMatcher).Methods()
SpecMethods(p) == p.methods

\* A Prefix that returns the pattern as it was given.
SpecPrefixRaw(p) == p.raw

\* (p *SpecMatcher).Prefix()
SpecPrefix(p) == p.literals[1]

-----------------------------------------------------------------------------
(* The Matcher interface and its other implementations *)

boolMatcher(b) == [kind |-> "boolMatcher", b |-> b]

\* testMatcher{methods: ms, prefix: prefix} of the router tests, its mark at
\* 0: ms is NilMethods or a method set.
testMatcher(ms, prefix) ==
  [kind |-> "testMatcher", methods |-> ms, prefix |-> prefix]

\* testMatcher.Match: the request itself when its path has the prefix and
\* its method is one of the matcher's, if it has any.
testMatch(t, req) ==
  IF ~HasPrefix(Value(req.ctx, pathKey).v, t.prefix) THEN NilReq
  ELSE IF ~t.methods.isNil /\ req.method \notin t.methods.set THEN NilReq
  ELSE req

\* matcher.Match(req)
Match(m, req) ==
  CASE m.kind = "SpecMatcher" -> SpecMatch(m, req)
    [] m.kind = "boolMatcher" -> IF m.b THEN req ELSE NilReq
    [] m.kind = "testMatcher" -> testMatch(m, req)

\* matcher.Methods()
Methods(m) ==
  CASE m.kind = "SpecMatcher" -> SpecMethods(m)
    [] m.kind = "boolMatcher" -> NilMethods
    [] m.kind = "testMatcher" -> m.methods

\* matcher.Prefix()
Prefix(m) ==
  CASE m.kind = "SpecMatcher" -> SpecPrefix(m)
    [] m.kind = "boolMatcher" -> <<>>
    [] m.kind = "testMatcher" -> m.prefix

-----------------------------------------------------------------------------
(* The routing trie *)

\* The zero trieNode.
emptyTrie == [routes |-> <<>>, children |-> <<>>]

\* sort.Search(len(children), func(i) { return ch <= children[i].prefix[0] }):
\* Go's binary search, on the half-open range [i, j).
RECURSIVE searchChild(_, _, _, _)
searchChild(children, ch, i, j) ==
  IF i < j
  THEN LET h == (i + j) \div 2
       IN  IF ~(Ord[ch] <= Ord[children[h + 1].prefix[1]])
           THEN searchChild(children, ch, h + 1, j)
           ELSE searchChild(children, ch, i, h)
  ELSE i

\* sort.Sort(byPrefix(children)): an insertion sort (fewer than 12 elements)
\* ordered by the whole edge label.
RECURSIVE insertChild(_, _)
insertChild(sorted, x) ==
  IF Len(sorted) > 0 /\ StrLess(x.prefix, sorted[Len(sorted)].prefix)
  THEN Append(insertChild(SubSeq(sorted, 1, Len(sorted) - 1), x),
              sorted[Len(sorted)])
  ELSE Append(sorted, x)

\* Children left in the order add put them in.
byPrefixUnsorted(s) == s

RECURSIVE byPrefix(_)
byPrefix(s) ==
  IF Len(s) = 0 THEN <<>>
  ELSE insertChild(byPrefix(SubSeq(s, 1, Len(s) - 1)), s[Len(s)])

\* A new child that lists the inserted route alone.
newChildAlone(tn, prefix, idx) ==
  [prefix |-> prefix, node |-> [routes |-> <<idx>>, children |-> <<>>]]

\* The child add appends when no edge starts with the prefix's first byte: the
\* whole prefix as its label, a copy of tn's routes plus idx as its routes.
newChild(tn, prefix, idx) ==
  [prefix |-> prefix,
   node |-> [routes |-> Append(tn.routes, idx), children |-> <<>>]]

\* A split whose intermediate node starts with no routes.
splitNodeWithoutRoutes(tn, old, lp) ==
  [routes |-> <<>>,
   children |-> <<[prefix |-> SliceFrom(old.prefix, Len(lp)),
                   node |-> old.node]>>]

\* A split that copies the routes of the node below the edge, not of tn.
splitNodeFromChild(tn, old, lp) ==
  [routes |-> old.node.routes,
   children |-> <<[prefix |-> SliceFrom(old.prefix, Len(lp)),
                   node |-> old.node]>>]

\* The intermediate node add makes when it splits the edge to old after lp:
\* the rest of the old label leads to the old node, the routes are a copy of
\* tn's.
splitNode(tn, old, lp) ==
  [routes |-> tn.routes,
   children |-> <<[prefix |-> SliceFrom(old.prefix, Len(lp)),
                   node |-> old.node]>>]

\* An insertion that puts a route whose prefix is exhausted in front of the
\* routes of the node.
RECURSIVE addPrepending(_, _, _)
addPrepending(tn, prefix, idx) ==
  IF Len(prefix) = 0
  THEN [routes |-> <<idx>> \o tn.routes,
        children |-> [k \in 1..Len(tn.children) |->
                        [prefix |-> tn.children[k].prefix,
                         node |-> addPrepending(tn.children[k].node,
                                                prefix, idx)]]]
  ELSE
    LET ch == prefix[1]
        i == searchChild(tn.children, ch, 0, Len(tn.children))
    IN  IF i = Len(tn.children) \/ ch # tn.children[i + 1].prefix[1]
        THEN [tn EXCEPT !.children =
                byPrefix(Append(tn.children, newChild(tn, prefix, idx)))]
        ELSE
          LET old == tn.children[i + 1]
              lp == longestPrefix(prefix, old.prefix)
              split == addPrepending(splitNode(tn, old, lp),
                                     SliceFrom(prefix, Len(lp)), idx)
          IN  IF old.prefix = lp
              THEN [tn EXCEPT !.children[i + 1].node =
                      addPrepending(old.node, SliceFrom(prefix, Len(lp)), idx)]
              ELSE [tn EXCEPT !.children = byPrefix(
                      [tn.children EXCEPT ![i + 1] =
                         [prefix |-> lp, node |-> split]])]

\* (tn *trieNode).add(prefix, idx): the node after the insertion.
RECURSIVE add(_, _, _)
add(tn, prefix, idx) ==
  IF Len(prefix) = 0
  THEN [routes |-> Append(tn.routes, idx),
        children |-> [k \in 1..Len(tn.children) |->
                        [prefix |-> tn.children[k].prefix,
                         node |-> add(tn.children[k].node, prefix, idx)]]]
  ELSE
    LET ch == prefix[1]
        i == searchChild(tn.children, ch, 0, Len(tn.children))
    IN  IF i = Len(tn.children) \/ ch # tn.children[i + 1].prefix[1]
        THEN [tn EXCEPT !.children =
                byPrefix(Append(tn.children, newChild(tn, prefix, idx)))]
        ELSE
          LET old == tn.children[i + 1]
              lp == longestPrefix(prefix, old.prefix)
              split == add(splitNode(tn, old, lp),
                           SliceFrom(prefix, Len(lp)), idx)
          IN  IF old.prefix = lp
              THEN [tn EXCEPT !.children[i + 1].node =
                      add(old.node, SliceFrom(prefix, Len(lp)), idx)]
              ELSE [tn EXCEPT !.children = byPrefix(
                      [tn.children EXCEPT ![i + 1] =
                         [prefix |-> lp, node |-> split]])]

\* (tn *trieNode).clone(): a deep copy.
RECURSIVE clone(_)
clone(tn) ==
  [routes |-> [k \in 1..Len(tn.routes) |-> tn.routes[k]],
   children |-> [k \in 1..Len(tn.children) |->
                   [prefix |-> tn.children[k].prefix,
                    node |-> clone(tn.children[k].node)]]]

-----------------------------------------------------------------------------
(* The router *)

\* The router as a value: its route list, its per-method tries (a function
\* whose domain is the set of methods that have a trie) and its wildcard trie.
Router(rs, ms, wc) == [routes |-> rs, methods |-> ms, wildcard |-> wc]

\* new(router): no routes, a nil methods map, the zero wildcard node.
newRouter == Router(<<>>, <<>>, emptyTrie)

\* A trie of a method that starts empty when the method had none.
methodTrieEmpty(r, method) ==
  IF method \in DOMAIN r.methods THEN r.methods[method] ELSE emptyTrie

\* The trie of a method a restricted route is added to: the method's own,
\* made as a clone of the wildcard trie when the method had none.
methodTrie(r, method) ==
  IF method \in DOMAIN r.methods THEN r.methods[method] ELSE clone(r.wildcard)

\* A registration that takes the wildcard trie itself, not a clone of it, as
\* the trie of a method that had none: the insertion for that method is an
\* insertion into the wildcard trie as well.
HandleSharingWildcard(r, matcher, handler) ==
  LET i == Len(r.routes)
      prefix == Prefix(matcher)
      ms == Methods(matcher)
      shared == ~ms.isNil /\ ms.set \ DOMAIN r.methods # {}
  IN  [routes |-> Append(r.routes, [matcher |-> matcher, handler |-> handler]),
       wildcard |-> IF ms.isNil \/ shared
                    THEN add(r.wildcard, prefix, i) ELSE r.wildcard,
       methods |-> IF ms.isNil
                   THEN [method \in DOMAIN r.methods |->
                           add(r.methods[method], prefix, i)]
                   ELSE [method \in DOMAIN r.methods \cup ms.set |->
                           IF method \in ms.set
                           THEN add(methodTrie(r, method), prefix, i)
                           ELSE r.methods[method]]]

\* (r *router).Handle(matcher, handler): the router after the registration.
Handle(r, matcher, handler) ==
  LET i == Len(r.routes)
      prefix == Prefix(matcher)
      ms == Methods(matcher)
  IN  [routes |-> Append(r.routes, [matcher |-> matcher, handler |-> handler]),
       wildcard |-> IF ms.isNil THEN add(r.wildcard, prefix, i) ELSE r.wildcard,
       methods |-> IF ms.isNil
                   THEN [method \in DOMAIN r.methods |->
                           add(r.methods[method], prefix, i)]
                   ELSE [method \in DOMAIN r.methods \cup ms.set |->
                           IF method \in ms.set
                           THEN add(methodTrie(r, method), prefix, i)
                           ELSE r.methods[method]]]

\* A dispatch that forgets the per-method tries.
selectTrieWildcardOnly(r, method) == r.wildcard

\* The trie Route starts from: the method's own, else the wildcard trie.
selectTrie(r, method) ==
  IF method \in DOMAIN r.methods THEN r.methods[method] ELSE r.wildcard

\* The loop for path != "" of Route: the node at which the walk stops.
RECURSIVE walk(_, _)
walk(tn, path) ==
  IF Len(path) = 0 THEN tn
  ELSE
    LET i == searchChild(tn.children, path[1], 0, Len(tn.children))
    IN  IF i = Len(tn.children) \/ ~HasPrefix(path, tn.children[i + 1].prefix)
        THEN tn
        ELSE walk(tn.children[i + 1].node,
                  SliceFrom(path, Len(tn.children[i + 1].prefix)))

\* The context layer Route adds: a match with its matcher and handler fields.
matchLayer(matcher, handler) ==
  [kind |-> "match", matcher |-> matcher, handler |-> handler]

\* A dispatch that returns an unmatched request as it came.
unmatchedBare(req) == req

\* req.WithContext(&match{Context: ctx}): the unmatched overlay.
unmatched(req) == WithContext(req, Append(req.ctx, matchLayer(Nil, Nil)))

\* A loop that binds the winning route over the incoming request, not over
\* the request its Match returned.
RECURSIVE firstMatchOnIncoming(_, _, _)
firstMatchOnIncoming(rs, candidates, req) ==
  IF Len(candidates) = 0
  THEN unmatched(req)
  ELSE
    LET rt == rs[Head(candidates) + 1]
        req2 == Match(rt.matcher, req)
    IN  IF ~req2.isNil
        THEN WithContext(req, Append(req.ctx,
               matchLayer(MatcherVal(rt.matcher), HandlerVal(rt.handler))))
        ELSE firstMatchOnIncoming(rs, Tail(candidates), req)

\* The loop over the candidates: the request bound to the first route whose
\* Match succeeds, or the request in an unmatched overlay.
RECURSIVE firstMatch(_, _, _)
firstMatch(rs, candidates, req) ==
  IF Len(candidates) = 0
  THEN unmatched(req)
  ELSE
    LET rt == rs[Head(candidates) + 1]
        req2 == Match(rt.matcher, req)
    IN  IF ~req2.isNil
        THEN WithContext(req2, Append(req2.ctx,
               matchLayer(MatcherVal(rt.matcher), HandlerVal(rt.handler))))
        ELSE firstMatch(rs, Tail(candidates), req)

\* A dispatch that keeps the trie it used as the trie of the request's method.
RouteCaching(r, req) ==
  LET path == Value(req.ctx, pathKey)
      tn == walk(selectTrie(r, req.method), path.v)
      r2 == [r EXCEPT !.methods =
               [m \in DOMAIN r.methods \cup {req.method} |->
                  selectTrie(r, m)]]
  IN  IF path.t # "string"
      THEN [r |-> r2, out |-> [kind |-> "panic"]]
      ELSE [r |-> r2,
            out |-> [kind |-> "return",
                     req |-> firstMatch(r.routes, tn.routes, req)]]

\* (r *router).Route(req): the router afterwards and what the call did: it
\* returns a request, or panics when the type assertion of the path value
\* to string fails.
Route(r, req) ==
  LET path == Value(req.ctx, pathKey)
      tn == walk(selectTrie(r, req.method), path.v)
  IN  IF path.t # "string"
      THEN [r |-> r, out |-> [kind |-> "panic"]]
      ELSE [r |-> r,
            out |-> [kind |-> "return",
                     req |-> firstMatch(r.routes, tn.routes, req)]]

\* A goroutine that has not called Route.
idle == [pc |-> "idle"]

\* The node at the child positions at (0-based, from the top) below tn.
RECURSIVE descend(_, _)
descend(tn, at) ==
  IF Len(at) = 0 THEN tn
  ELSE descend(tn.children[Head(at) + 1].node, Tail(at))

\* The node a goroutine's local tn points to: tn is a pointer, kept as the
\* trie it points into (a method's, or the wildcard trie for "*") and the
\* child positions from that trie's root, and read through the router.
deref(r, ptr) ==
  descend(IF ptr.trie = "*" THEN r.wildcard ELSE r.methods[ptr.trie], ptr.at)

\* The call r.Route(req) of a goroutine, before its first statement.
beginRoute(req) == [pc |-> "select", req |-> req]

\* A first statement that also stores the trie it selected as the trie of
\* the request's method.
selectStepCaching(r, st) ==
  [r |-> [r EXCEPT !.methods =
            [m \in DOMAIN r.methods \cup {st.req.method} |->
               selectTrie(r, m)]],
   st |-> [pc |-> "path", req |-> st.req,
           tn |-> [trie |-> st.req.method, at |-> <<>>]]]

\* tn := &r.wildcard; if tn2, ok := r.methods[req.Method]; ok { tn = tn2 }
selectStep(r, st) ==
  [r |-> r,
   st |-> [pc |-> "path", req |-> st.req,
           tn |-> [trie |-> IF st.req.method \in DOMAIN r.methods
                            THEN st.req.method ELSE "*",
                   at |-> <<>>]]]

\* ctx := req.Context(); path := ctx.Value(pathKey).(string): the goroutine
\* panics when the path value is not a string.
pathStep(r, st) ==
  LET path == Value(st.req.ctx, pathKey)
  IN  [r |-> r,
       st |-> IF path.t # "string"
              THEN [pc |-> "done", req |-> st.req, out |-> [kind |-> "panic"]]
              ELSE [pc |-> "walk", req |-> st.req, tn |-> st.tn,
                    path |-> path.v]]

\* One test of path != "" and, when it holds, one iteration of the loop:
\* a break leads to the loop over the candidates, at its first one.
walkStep(r, st) ==
  LET tn == deref(r, st.tn)
      i == searchChild(tn.children, st.path[1], 0, Len(tn.children))
      try == [pc |-> "try", req |-> st.req, tn |-> st.tn, k |-> 0]
  IN  [r |-> r,
       st |-> IF Len(st.path) = 0 THEN try
              ELSE IF i = Len(tn.children)
                      \/ ~HasPrefix(st.path, tn.children[i + 1].prefix)
              THEN try
              ELSE [pc |-> "walk", req |-> st.req,
                    tn |-> [st.tn EXCEPT !.at = Append(@, i)],
                    path |-> SliceFrom(st.path,
                                       Len(tn.children[i + 1].prefix))]]

\* One iteration of for _, i := range tn.routes, at candidate k (0-based),
\* or the final return when the candidates are exhausted.
tryStep(r, st) ==
  LET tn == deref(r, st.tn)
      rt == r.routes[tn.routes[st.k + 1] + 1]
      req2 == Match(rt.matcher, st.req)
      return(req) == [pc |-> "done", req |-> st.req,
                      out |-> [kind |-> "return", req |-> req]]
  IN  [r |-> r,
       st |-> IF st.k >= Len(tn.routes) THEN return(unmatched(st.req))
              ELSE IF ~req2.isNil
              THEN return(WithContext(req2, Append(req2.ctx,
                     matchLayer(MatcherVal(rt.matcher),
                                HandlerVal(rt.handler)))))
              ELSE [st EXCEPT !.k = @ + 1]]

\* simpleRouter.Route from route k (0-based) on: the reference router, Match
\* on every route in registration order.
RECURSIVE simpleRouteFrom(_, _, _)
simpleRouteFrom(sr, k, req) ==
  IF k >= Len(sr)
  THEN WithContext(req, Append(req.ctx, matchLayer(Nil, Nil)))
  ELSE
    LET req2 == Match(sr[k + 1].matcher, req)
    IN  IF ~req2.isNil
        THEN WithContext(req2, Append(req2.ctx,
               matchLayer(MatcherVal(sr[k + 1].matcher),
                          HandlerVal(sr[k + 1].handler))))
        ELSE simpleRouteFrom(sr, k + 1, req)

simpleRoute(sr, req) == simpleRouteFrom(sr, 0, req)

\* intHandler(i), the handler the router tests register at index i.
intHandler(i) == [kind |-> "intHandler", n |-> i]

-----------------------------------------------------------------------------
(* The Mux: options, middleware chain and ServeHTTP *)

\* http.HandlerFunc(http.NotFound), the default not-found handler: it
\* answers 404.
httpNotFound == [kind |-> "http.NotFound", code |-> 404]

\* A handler that answers the given status code, as the one the tests give
\* to NotFoundFunc.
statusHandler(code) == [kind |-> "statusHandler", code |-> code]

\* The Mux options.
SubMux == [opt |-> "SubMux"]
NotFound(h) == [opt |-> "NotFound", h |-> h]

\* o(m) for one option.
applyMuxOpt(m, o) ==
  IF o.opt = "SubMux" THEN [m EXCEPT !.sub = TRUE]
  ELSE [m EXCEPT !.notFound = o.h]

\* for _, o := range opts { o(m) }
RECURSIVE applyMuxOpts(_, _)
applyMuxOpts(m, opts) ==
  IF Len(opts) = 0 THEN m
  ELSE applyMuxOpts(applyMuxOpt(m, Head(opts)), Tail(opts))

\* The closure buildChain starts from: it calls the handler the request
\* binds, or m.notFound.
terminalHandler == [kind |-> "terminal"]

\* makeMiddleware(ch, name): sends "before name", calls the next handler,
\* sends "after name".
makeMiddleware(name) == [kind |-> "makeMiddleware", name |-> name]

\* middleware(h): the handler a middleware makes around h.
applyMiddleware(mw, h) == [kind |-> "wrapped", name |-> mw.name, next |-> h]

\* for i := len(m.middleware) - 1; i >= 0; i-- { h = m.middleware[i](h) },
\* from index i (0-based) down.
RECURSIVE wrap(_, _, _)
wrap(h, middleware, i) ==
  IF i < 0 THEN h
  ELSE wrap(applyMiddleware(middleware[i + 1], h), middleware, i - 1)

\* (m *Mux).buildChain()
buildChain(m) ==
  [m EXCEPT !.handler = wrap(terminalHandler, m.middleware,
                             Len(m.middleware) - 1)]

\* New(opts...) of the Mux; its router is new(router).
NewMux(opts) ==
  buildChain(applyMuxOpts([kind |-> "Mux",
                           middleware |-> <<>>,
                           handler |-> Nil,
                           notFound |-> httpNotFound,
                           sub |-> FALSE], opts))

\* NewSubMux(opts...)
NewSubMux(opts) == NewMux(opts \o <<SubMux>>)

\* (m *Mux).Use(middleware)
Use(m, middleware) ==
  buildChain([m EXCEPT !.middleware = Append(@, middleware)])

\* The bytes url.URL.EscapedPath leaves as they are in a path, among the
\* bytes of the model: letters, digits and . , / : ;
RECURSIVE escapePath(_)
escapePath(s) ==
  IF Len(s) = 0 THEN <<>>
  ELSE (CASE s[1] = " " -> <<"%", "2", "0">>
          [] s[1] = "%" -> <<"%", "2", "5">>
          [] s[1] = "*" -> <<"%", "2", "A">>
          [] OTHER -> <<s[1]>>) \o escapePath(Tail(s))

\* req.URL.EscapedPath(): RawPath when it is a valid encoding of Path, the
\* escaped Path otherwise.
EscapedPath(url) ==
  IF /\ Len(url.rawPath) > 0
     /\ ~unescape(url.rawPath).err
     /\ unescape(url.rawPath).s = url.path
  THEN url.rawPath
  ELSE escapePath(url.path)

\* A request with its URL.
MuxRequest(method, url, ctx) ==
  [isNil |-> FALSE, method |-> method, ctx |-> ctx, url |-> url]

\* What the closure of buildChain does with a routed request: the events of
\* the handler it calls, each with the path that handler reads.
terminal(m, req) ==
  LET h == Value(req.ctx, handlerKey)
  IN  IF h # Nil
      THEN <<[ev |-> "handler", h |-> h.v, path |-> Value(req.ctx, pathKey)]>>
      ELSE <<[ev |-> "notFound", h |-> m.notFound,
              path |-> Value(req.ctx, pathKey)]>>

\* h.ServeHTTP(res, req) for a handler of the chain: the events in order.
RECURSIVE serve(_, _, _)
serve(h, m, req) ==
  IF h.kind = "terminal" THEN terminal(m, req)
  ELSE <<[ev |-> "before", name |-> h.name]>>
         \o serve(h.next, m, req)
         \o <<[ev |-> "after", name |-> h.name]>>

\* A Mux that keeps a path value it finds in the context.
entryContextKeep(m, req) ==
  IF ~m.sub /\ Value(req.ctx, pathKey) = Nil
  THEN WithValue(req.ctx, pathKey, StringVal(EscapedPath(req.url)))
  ELSE req.ctx

\* The context a Mux routes on: the request's, under the escaped path of
\* the URL unless the Mux is a sub-mux.
entryContext(m, req) ==
  IF ~m.sub
  THEN WithValue(req.ctx, pathKey, StringVal(EscapedPath(req.url)))
  ELSE req.ctx

\* (m *Mux).ServeHTTP(res, req) on the router r: how the call ends and the
\* events up to there, the call of Route first.  Route is evaluated before
\* the chain is entered, so its panic ends the call there.
ServeHTTP(m, r, req) ==
  LET req1 == WithContext(req, entryContext(m, req))
      res == Route(r, req1)
      routing == <<[ev |-> "Route", path |-> Value(req1.ctx, pathKey)]>>
  IN  IF res.out.kind = "panic"
      THEN [kind |-> "panic", trace |-> routing]
      ELSE [kind |-> "return",
            trace |-> routing \o serve(m.handler, m, res.out.req)]

-----------------------------------------------------------------------------
(* Bounds and inputs *)

\* The largest number of routes registered.
MaxRoutes == 3

\* The longest request path given to a pattern.
MaxPathLen == 4

\* The request methods.
ReqMethods == {"GET", "HEAD", "POST"}

\* The matchers registered with the router.
RouterMatchers ==
  { New(<<"/", "a">>, <<>>),
    New(<<"/", "a", "b">>, <<>>),
    New(<<"/", ":", "n">>, <<>>),
    Get(<<"/", "a">>),
    New(<<"/", "a", "/", "*">>, <<WithMethod(<<"GET">>)>>),
    HeadOnly(<<"/", "a">>),
    boolMatcher(TRUE) }

\* The request paths given to the router.
RoutePaths ==
  { <<>>, <<"/">>, <<"/", "a">>, <<"/", "b">>, <<"/", "a", "b">>,
    <<"/", "a", "/">> }

\* A context that already binds a matcher, a handler and a named variable,
\* besides the path.
boundContext(path) ==
  WithPath(
    WithValue(
      WithHandler(WithMatcher(Background, boolMatcher(TRUE)), intHandler(9)),
      nameKey(<<"n">>), IntVal(42)),
    path)

\* The contexts of the requests given to the router: with a path, with a
\* path over earlier bindings, and with no path value at all.
RouteContexts ==
  {WithPath(Background, p) : p \in RoutePaths}
    \cup {boundContext(<<"/", "a", "/">>)}
    \cup {Background}

RouteRequests == {Request(m, ctx) : m \in ReqMethods, ctx \in RouteContexts}

\* The patterns compiled for matching, each with the constructor that built it.
Built(ctor, raw, opts) ==
  [ctor |-> ctor, raw |-> raw, opts |-> opts,
   p |-> CASE ctor = "New" -> New(raw, opts)
           [] ctor = "Get" -> Get(raw)
           [] ctor = "Post" -> Post(raw)
           [] ctor = "Put" -> Put(raw)
           [] ctor = "Delete" -> Delete(raw)
           [] ctor = "Head" -> HeadOnly(raw)]

PatTexts ==
  { <<>>,
    <<"/">>,
    <<"/", "a">>,
    <<"/", "a", "/", ":", "n">>,
    <<"/", ":", "n">>,
    <<"/", ":", "n", "/">>,
    <<"/", ":", "n", "/", "a">>,
    <<"/", ":", "n", "/", ":", "c">>,
    <<"/", ":", "f", ".", ":", "e">>,
    <<"/", "a", ".", ":", "e">>,
    <<"/", ":", "f", ".", "a">>,
    <<"/", "a", ";", ":", "n">>,
    <<"/", "a", ",", ":", "n">>,
    <<"/", "*">>,
    <<"/", "a", "/", "*">>,
    <<"/", ":", "n", "/", "*">> }

MethodPatTexts == { <<"/">>, <<"/", ":", "n">> }

Patterns ==
  {Built("New", raw, <<>>) : raw \in PatTexts}
    \cup {Built(ctor, raw, <<>>) :
            ctor \in {"Get", "Post", "Delete", "Head"},
            raw \in MethodPatTexts}
    \cup {Built("New", raw, <<WithMethod(ms)>>) :
            ms \in {<<"GET">>, <<"POST", "PUT">>, <<>>},
            raw \in MethodPatTexts}
    \cup {Built("New", <<"/">>,
                <<WithMethod(<<"GET">>), WithMethod(<<"POST">>)>>)}

PathAlphabet == {"/", ".", ";", "a"}

\* Every path of at most n bytes over the alphabet.
PathsUpTo(n) == UNION {[1..k -> PathAlphabet] : k \in 0..n}

\* Longer paths, paths with a comma, and paths with percent escapes,
\* well-formed and malformed.
ExtraPaths ==
  { <<"/", "a", ".", "a", ".", "a">>, <<"/", "a", ".", "a", "/">>,
    <<"/", "a", ",", "a">>, <<"/", "a", ",", "a", ";", ".">>,
    <<"/", "%", "2", "f">>, <<"/", "%", "n">>, <<"/", "a", "%">>,
    <<"/", "%", "2", "0", "a">>, <<"/", "%", "2", "f", "/", "%", "2", "f">> }

\* A context that, besides the path, holds a map of all names (a bound to
\* "aa", c to "n") and binds the names n and b by themselves.
namedContext(path) ==
  WithValue(
    WithValue(
      WithValue(WithPath(Background, path), allNames,
                MapVal((<<"a">> :> StringVal(<<"a", "a">>))
                         @@ (<<"c">> :> StringVal(<<"n">>)))),
      nameKey(<<"n">>), StringVal(<<"b">>)),
    nameKey(<<"b">>), StringVal(<<"c", "a">>))

\* The paths of the requests whose context binds names before the match.
NamedPaths ==
  { <<"/">>, <<"/", "a">>, <<"/", "a", "/", "a">>, <<"/", ";", "/", "a">>,
    <<"/", "a", ".", ";">> }

\* The names given to Param and the keys given to Value after a match.
ParamNames == {<<"n">>, <<"c">>, <<"e">>, <<"b">>}
ReadKeys == {allNames, pathKey, nameKey(<<"n">>), nameKey(<<"a">>)}

MatchRequests ==
  {Request(m, WithPath(Background, p)) :
     m \in ReqMethods, p \in PathsUpTo(MaxPathLen) \cup ExtraPaths}
    \cup {Request("GET", namedContext(p)) : p \in NamedPaths}

-----------------------------------------------------------------------------
(* The router specification: registrations and dispatches in any order *)

\* The value of pat when no pattern is under test.
NoPat == [ctor |-> "none"]

\* The value of mux when the router is used by itself.
NoMux == [kind |-> "none"]

Init ==
  /\ routes = newRouter.routes
  /\ methods = newRouter.methods
  /\ wildcard = newRouter.wildcard
  /\ pat = NoPat
  /\ request = NilReq
  /\ last = [op |-> "new"]
  /\ mux = NoMux
  /\ uses = <<>>
  /\ disp = <<>>

\* The router the state holds.
R == Router(routes, methods, wildcard)

\* r.Handle(matcher, intHandler(len(r.routes)))
HandleStep(matcher) ==
  /\ Len(routes) < MaxRoutes
  /\ LET r2 == Handle(R, matcher, intHandler(Len(routes)))
     IN  /\ routes' = r2.routes
         /\ methods' = r2.methods
         /\ wildcard' = r2.wildcard
  /\ request' = NilReq
  /\ last' = [op |-> "Handle"]
  /\ UNCHANGED <<pat, mux, uses, disp>>

\* r.Route(req).  A dispatch that directly follows a dispatch repeats its
\* request; any other request is dispatched from the same router after the
\* registration that led to it.
RouteStep(req) ==
  /\ last.op = "Route" => req = request
  /\ LET res == Route(R, req)
     IN  /\ routes' = res.r.routes
         /\ methods' = res.r.methods
         /\ wildcard' = res.r.wildcard
         /\ last' = [op |-> "Route", out |-> res.out,
                     repeat |-> last.op = "Route"]
  /\ request' = req
  /\ UNCHANGED <<pat, mux, uses, disp>>

Next ==
  \/ \E matcher \in RouterMatchers : HandleStep(matcher)
  \/ \E req \in RouteRequests : RouteStep(req)

Spec == Init /\ [][Next]_vars

-----------------------------------------------------------------------------
(* The pattern specification: one compiled pattern matched against one      *)
(* request, both drawn from the bounded input sets                          *)

InitPat ==
  /\ routes = newRouter.routes
  /\ methods = newRouter.methods
  /\ wildcard = newRouter.wildcard
  /\ pat \in Patterns
  /\ request \in MatchRequests
  /\ last = [op |-> "New"]
  /\ mux = NoMux
  /\ uses = <<>>
  /\ disp = <<>>

\* pat.Match(request)
MatchStep ==
  /\ last' = [op |-> "Match", out |-> Match(pat.p, request)]
  /\ UNCHANGED <<routes, methods, wildcard, pat, request, mux, uses, disp>>

\* The request the latest match returned, as later reads have left it.
Matched == IF last.op = "Match" THEN last.out ELSE last.req

\* Param(req, name) on the matched request.
ParamStep(name) ==
  /\ last.op \in {"Match", "Value"}
  /\ ~Matched.isNil
  /\ last' = [op |-> "Param", name |-> name, out |-> Param(Matched, name),
              req |-> Matched]
  /\ UNCHANGED <<routes, methods, wildcard, pat, request, mux, uses, disp>>

\* req.Context().Value(key) on the matched request.  The incoming request
\* shares the enclosing layers of the matched request's context, so what
\* the call writes there shows in both.
ReadStep(key) ==
  /\ last.op \in {"Match", "Value"}
  /\ ~Matched.isNil
  /\ LET after == ValueWrites(Matched.ctx, key)
     IN  /\ last' = [op |-> "Value", key |-> key,
                     out |-> Value(Matched.ctx, key),
                     req |-> WithContext(Matched, after)]
         /\ request' = WithContext(request, SubSeq(after, 1, Len(request.ctx)))
  /\ UNCHANGED <<routes, methods, wildcard, pat, mux, uses, disp>>

NextPat ==
  \/ MatchStep
  \/ \E name \in ParamNames : ParamStep(name)
  \/ \E key \in ReadKeys : ReadStep(key)

SpecPat == InitPat /\ [][NextPat]_vars

-----------------------------------------------------------------------------
(* The Mux specification: a Mux is made, middleware and routes are added    *)
(* and requests are served, in any order                                    *)

\* The largest number of middleware given to Use.
MaxMiddleware == 2

\* The largest number of routes registered with the Mux.
MaxMuxRoutes == 2

\* The names of the middleware.
MiddlewareNames == {"one", "two", "three"}

\* The matchers registered with the Mux.
MuxMatchers ==
  { boolMatcher(TRUE),
    New(<<"/", "a", "/", "*">>, <<>>),
    Get(<<"/", ":", "n">>) }

\* The ways the Mux is made.
MuxChoices ==
  { NewMux(<<>>),
    NewMux(<<NotFound(statusHandler(123))>>),
    NewSubMux(<<>>) }

\* The URLs of the requests: Path alone, Path with a byte to escape, RawPath
\* that encodes Path, and RawPath that does not.
MuxURLs ==
  { [path |-> <<"/">>, rawPath |-> <<>>],
    [path |-> <<"/", "a", "/", "a">>, rawPath |-> <<>>],
    [path |-> <<"/", " ", "a">>, rawPath |-> <<>>],
    [path |-> <<"/", "/">>, rawPath |-> <<"/", "%", "2", "f">>],
    [path |-> <<"/", "a">>, rawPath |-> <<"/", "%", "n">>] }

\* The contexts of the requests: with no path value, and with one that is
\* the escaped path of none of the URLs.
MuxContexts == {Background, WithPath(Background, <<"/", "a", "/">>)}

MuxRequests ==
  {MuxRequest(m, url, ctx) :
     m \in {"GET", "POST"}, url \in MuxURLs, ctx \in MuxContexts}

InitMux ==
  /\ routes = newRouter.routes
  /\ methods = newRouter.methods
  /\ wildcard = newRouter.wildcard
  /\ pat = NoPat
  /\ request = NilReq
  /\ last = [op |-> "NewMux"]
  /\ mux \in MuxChoices
  /\ uses = <<>>
  /\ disp = <<>>

\* m.Use(makeMiddleware(ch, name))
UseStep(name) ==
  /\ Len(mux.middleware) < MaxMiddleware
  /\ mux' = Use(mux, makeMiddleware(name))
  /\ uses' = Append(uses, name)
  /\ request' = NilReq
  /\ last' = [op |-> "Use"]
  /\ UNCHANGED <<routes, methods, wildcard, pat, disp>>

\* m.Handle(matcher, intHandler(len(routes))): m.router.Handle.
MuxHandleStep(matcher) ==
  /\ Len(routes) < MaxMuxRoutes
  /\ LET r2 == Handle(R, matcher, intHandler(Len(routes)))
     IN  /\ routes' = r2.routes
         /\ methods' = r2.methods
         /\ wildcard' = r2.wildcard
  /\ request' = NilReq
  /\ last' = [op |-> "Handle"]
  /\ UNCHANGED <<pat, mux, uses, disp>>

\* m.ServeHTTP(res, req).  A request served directly after another one
\* repeats it; any other request is served by the same Mux after the Use or
\* Handle that led to it.
ServeStep(req) ==
  /\ last.op = "ServeHTTP" => req = request
  /\ last' = [op |-> "ServeHTTP", out |-> ServeHTTP(mux, R, req)]
  /\ request' = req
  /\ UNCHANGED <<routes, methods, wildcard, pat, mux, uses, disp>>

NextMux ==
  \/ \E name \in MiddlewareNames : UseStep(name)
  \/ \E matcher \in MuxMatchers : MuxHandleStep(matcher)
  \/ \E req \in MuxRequests : ServeStep(req)

SpecMux == InitMux /\ [][NextMux]_vars

-----------------------------------------------------------------------------
(* The registration specification: registrations alone, of matchers with    *)
(* the prefixes and method sets of the router tests                         *)

\* The matchers registered: the kinds of TestRouter (no methods, some
\* methods, an empty method set, prefixes that extend and that branch off
\* one another) and a pattern.
RegMatchers ==
  { testMatcher(NilMethods, <<>>),
    testMatcher(NilMethods, <<"/">>),
    testMatcher(NilMethods, <<"/", "a">>),
    testMatcher(NilMethods, <<"/", "a", "b">>),
    testMatcher(NilMethods, <<"/", "a", "c">>),
    testMatcher(NilMethods, <<"/", "b">>),
    testMatcher(NilMethods, <<"a">>),
    testMatcher(MethodSet({"GET"}), <<"/", "b">>),
    testMatcher(MethodSet({"POST", "PUT"}), <<"/", "a">>),
    testMatcher(MethodSet({"GET", "POST"}), <<"/", "a", "b">>),
    testMatcher(MethodSet({}), <<"/">>),
    Get(<<"/", ":", "n">>) }

NextReg == \E matcher \in RegMatchers : HandleStep(matcher)

SpecReg == Init /\ [][NextReg]_vars

-----------------------------------------------------------------------------
(* The concurrent specification: registrations first, then goroutines that  *)
(* call Route on the same router, their statements interleaved              *)

\* The largest number of goroutines inside Route at once.
MaxDispatches == 2

\* The largest number of routes registered before the dispatches.
MaxConcRoutes == 2

\* The matchers registered before the dispatches.
ConcMatchers ==
  { New(<<"/", "a">>, <<>>),
    Get(<<"/", ":", "n">>),
    New(<<"/", "a", "b">>, <<WithMethod(<<"POST">>)>>) }

\* The requests dispatched at once: two with a path and one with none.
ConcRequests ==
  { Request("GET", WithPath(Background, <<"/", "a", "b">>)),
    Request("POST", WithPath(Background, <<"/", "a", "b">>)),
    Request("GET", Background) }

InitConc ==
  /\ routes = newRouter.routes
  /\ methods = newRouter.methods
  /\ wildcard = newRouter.wildcard
  /\ pat = NoPat
  /\ request = NilReq
  /\ last = [op |-> "new"]
  /\ mux = NoMux
  /\ uses = <<>>
  /\ disp = [d \in 1..MaxDispatches |-> idle]

\* r.Handle(matcher, intHandler(len(r.routes))), before any goroutine has
\* called Route.
ConcHandleStep(matcher) ==
  /\ Len(routes) < MaxConcRoutes
  /\ \A d \in DOMAIN disp : disp[d] = idle
  /\ LET r2 == Handle(R, matcher, intHandler(Len(routes)))
     IN  /\ routes' = r2.routes
         /\ methods' = r2.methods
         /\ wildcard' = r2.wildcard
  /\ last' = [op |-> "Handle"]
  /\ UNCHANGED <<pat, request, mux, uses, disp>>

\* Goroutine d calls r.Route(req); the goroutines are numbered in the order
\* of their calls.
BeginStep(d, req) ==
  /\ disp[d] = idle
  /\ \A e \in 1..(d - 1) : disp[e] # idle
  /\ disp' = [disp EXCEPT ![d] = beginRoute(req)]
  /\ last' = [op |-> "go", d |-> d]
  /\ UNCHANGED <<routes, methods, wildcard, pat, request, mux, uses>>

\* Goroutine d executes one step of Route: res is the router and the
\* goroutine's position after it.
Advance(d, res) ==
  /\ routes' = res.r.routes
  /\ methods' = res.r.methods
  /\ wildcard' = res.r.wildcard
  /\ disp' = [disp EXCEPT ![d] = res.st]
  /\ last' = [op |-> "step", d |-> d]
  /\ UNCHANGED <<pat, request, mux, uses>>

SelectStep(d) == disp[d].pc = "select" /\ Advance(d, selectStep(R, disp[d]))

PathStep(d) == disp[d].pc = "path" /\ Advance(d, pathStep(R, disp[d]))

WalkStep(d) == disp[d].pc = "walk" /\ Advance(d, walkStep(R, disp[d]))

TryStep(d) == disp[d].pc = "try" /\ Advance(d, tryStep(R, disp[d]))

NextConc ==
  \/ \E matcher \in ConcMatchers : ConcHandleStep(matcher)
  \/ \E d \in DOMAIN disp : \E req \in ConcRequests : BeginStep(d, req)
  \/ \E d \in DOMAIN disp : SelectStep(d)
  \/ \E d \in DOMAIN disp : PathStep(d)
  \/ \E d \in DOMAIN disp : WalkStep(d)
  \/ \E d \in DOMAIN disp : TryStep(d)

SpecConc == InitConc /\ [][NextConc]_vars

-----------------------------------------------------------------------------
(* Definitions the properties share *)

\* x occurs in the sequence s.
InSeq(x, s) == \E k \in 1..Len(s) : s[k] = x

\* The latest call was a dispatch of a request whose context binds a path.
Routed ==
  /\ last.op = "Route"
  /\ Value(request.ctx, pathKey).t = "string"

\* The candidate list of a dispatch of (method, path): the routes of the node
\* at which the walk of the selected trie stops.
Candidates(method, path) == walk(selectTrie(R, method), path).routes

\* The routes (1-based positions in the route list) whose Match accepts req.
Accepting(req) ==
  {i \in 1..Len(routes) : ~Match(routes[i].matcher, req).isNil}

\* The least element of a non-empty set of numbers.
Min(S) == CHOOSE i \in S : \A j \in S : i <= j

\* The matcher and the handler a returned request binds.
BoundMatcher(req) == Value(req.ctx, matcherKey)
BoundHandler(req) == Value(req.ctx, handlerKey)

\* Every trie of the router: the wildcard trie and the per-method tries.
AllTries == {wildcard} \cup {methods[m] : m \in DOMAIN methods}

\* The paths the trie properties are evaluated on.
TriePaths ==
  RoutePaths \cup
    { <<"/", "a", "a">>, <<"/", "a", "b", "b">>, <<"/", "a", "/", "b">>,
      <<"a">>, <<"/", "b", "a">> }

-----------------------------------------------------------------------------
(* Properties of the router *)

\* C1: after any registrations, a dispatch of a request that carries a path
\* returns exactly what the reference router returns, which calls Match on
\* every route in registration order: it binds the matcher and handler of the
\* lowest-index route whose Match succeeds, and none when no Match succeeds.
RouteMatchesReference ==
  Routed =>
    /\ last.out.kind = "return"
    /\ last.out.req = simpleRoute(routes, request)
    /\ IF Accepting(request) = {}
       THEN /\ BoundMatcher(last.out.req) = Nil
            /\ BoundHandler(last.out.req) = Nil
       ELSE LET rt == routes[Min(Accepting(request))]
            IN  /\ BoundMatcher(last.out.req) = MatcherVal(rt.matcher)
                /\ BoundHandler(last.out.req) = HandlerVal(rt.handler)

\* A dispatch on three routes bound the second one although the first is a
\* route the trie pruned and the third also accepts the request.
RouteMatchesReferenceWitness ==
  /\ Routed
  /\ Len(routes) = 3
  /\ BoundHandler(last.out.req) = HandlerVal(intHandler(1))
  /\ ~InSeq(0, Candidates(request.method, Path(request.ctx)))
  /\ 3 \in Accepting(request)
  /\ DOMAIN methods # {}

\* C2: in every trie, the candidate list of a path never holds a route whose
\* Prefix() is not a literal prefix of that path.
PrefixSoundness ==
  \A tn \in AllTries : \A path \in TriePaths : \A i \in 1..Len(routes) :
    ~HasPrefix(path, Prefix(routes[i].matcher))
      => ~InSeq(i - 1, walk(tn, path).routes)

\* A dispatch whose walk went below the root and whose candidate list left
\* out a registered route of the same trie, its prefix not being one of the
\* path.
PrefixSoundnessWitness ==
  /\ Routed
  /\ Len(Candidates(request.method, Path(request.ctx))) > 0
  /\ \E i \in 1..Len(routes) :
       /\ ~HasPrefix(Path(request.ctx), Prefix(routes[i].matcher))
       /\ \E path \in TriePaths :
            InSeq(i - 1, Candidates(request.method, path))
       /\ ~InSeq(i - 1, Candidates(request.method, Path(request.ctx)))
       /\ HasPrefix(Prefix(routes[i].matcher), Path(request.ctx))
       /\ Len(Path(request.ctx)) > 1

\* The request req with another method.
OfMethod(req, method) == [req EXCEPT !.method = method]

\* The routes (1-based positions) a returned request is bound to.
BoundRoutes(req) ==
  {i \in 1..Len(routes) :
     /\ BoundMatcher(req) = MatcherVal(routes[i].matcher)
     /\ BoundHandler(req) = HandlerVal(routes[i].handler)}

\* The route at position i is a pattern as Get builds it from its text.
GetBuilt(i) ==
  /\ routes[i].matcher.kind = "SpecMatcher"
  /\ routes[i].matcher = Get(routes[i].matcher.raw)

\* C3 as stated: after a dispatch of a HEAD request, every route whose
\* method set holds GET and that accepts the request as a GET request also
\* accepts it as it is, and a route the GET dispatch selects is the one the
\* HEAD dispatch selected.
GetRestrictedMatchesHead ==
  (Routed /\ request.method = "HEAD") =>
    \A i \in 1..Len(routes) :
      LET ms == Methods(routes[i].matcher)
          get == OfMethod(request, "GET")
      IN  (~ms.isNil /\ "GET" \in ms.set /\ i \in Accepting(get)) =>
            /\ i \in Accepting(request)
            /\ i \in BoundRoutes(Route(R, get).out.req)
                 => i \in BoundRoutes(last.out.req)

\* C3 as amended: after a dispatch of a HEAD request, every route built by
\* Get that accepts the request as a GET request also accepts it as it is,
\* and the dispatch selected that route or an earlier one: that very route
\* when no earlier route accepts the HEAD request.
GetBuiltMatchesHead ==
  (Routed /\ request.method = "HEAD") =>
    \A i \in 1..Len(routes) :
      (GetBuilt(i) /\ i \in Accepting(OfMethod(request, "GET"))) =>
        /\ i \in Accepting(request)
        /\ \E j \in 1..i : j \in BoundRoutes(last.out.req)
        /\ (\A k \in 1..(i - 1) : k \notin Accepting(request))
             => i \in BoundRoutes(last.out.req)

\* A HEAD dispatch selected a route built by Get, registered after a route
\* restricted to GET alone and before another route that accepts the request.
GetBuiltMatchesHeadWitness ==
  /\ Routed
  /\ request.method = "HEAD"
  /\ Len(routes) = 3
  /\ GetBuilt(2)
  /\ Methods(routes[1].matcher) = MethodSet({"GET"})
  /\ 2 \in BoundRoutes(last.out.req)
  /\ 3 \in Accepting(request)

\* No candidate of the latest dispatch accepted its request.
NoCandidateMatches ==
  LET cands == Candidates(request.method, Path(request.ctx))
  IN  \A k \in 1..Len(cands) :
        Match(routes[cands[k] + 1].matcher, request).isNil

\* The keys of a context other than the matcher's and the handler's.
OtherKeys ==
  {pathKey, allNames, nameKey(<<"n">>), nameKey(<<"c">>)}

\* C5: when no candidate's Match succeeds, the dispatch returns the request
\* it was given under one more context layer: the matcher and the handler
\* read as nil from it, also when the incoming context bound them, and the
\* path and every other value read as they did from the incoming context.
UnmatchedOverlay ==
  (Routed /\ NoCandidateMatches) =>
    /\ last.out.kind = "return"
    /\ last.out.req.method = request.method
    /\ Len(last.out.req.ctx) = Len(request.ctx) + 1
    /\ SubSeq(last.out.req.ctx, 1, Len(request.ctx)) = request.ctx
    /\ BoundMatcher(last.out.req) = Nil
    /\ BoundHandler(last.out.req) = Nil
    /\ \A key \in OtherKeys :
         Value(last.out.req.ctx, key) = Value(request.ctx, key)

\* A dispatch of a request whose context bound a matcher, a handler and a
\* named variable tried a candidate, found no match, and returned a request
\* that binds neither matcher nor handler.
UnmatchedOverlayWitness ==
  /\ Routed
  /\ NoCandidateMatches
  /\ Len(Candidates(request.method, Path(request.ctx))) > 0
  /\ BoundMatcher(request) # Nil
  /\ BoundHandler(request) # Nil
  /\ Value(request.ctx, nameKey(<<"n">>)) = IntVal(42)
  /\ BoundMatcher(last.out.req) = Nil

\* C6 as stated: a dispatch on a router with no routes returns, whatever
\* the request, and what it returns binds neither matcher nor handler.
ZeroRoutesNeverFails ==
  (last.op = "Route" /\ Len(routes) = 0) =>
    /\ last.out.kind = "return"
    /\ BoundMatcher(last.out.req) = Nil
    /\ BoundHandler(last.out.req) = Nil

\* C7: a dispatch leaves the route list, the wildcard trie and the
\* per-method tries as they were, and a dispatch that repeats the request of
\* the dispatch before it returns what that dispatch returned.
RouteIsPureRead ==
  [][last'.op = "Route" =>
       /\ routes' = routes
       /\ methods' = methods
       /\ wildcard' = wildcard
       /\ (last.op = "Route" /\ request' = request) => last'.out = last.out]_vars

\* A dispatch on a router of three routes with per-method tries, for a
\* method that has no trie of its own, repeated the dispatch before it and
\* selected the last route.
RouteIsPureReadWitness ==
  /\ Routed
  /\ last.repeat
  /\ Len(routes) = 3
  /\ DOMAIN methods # {}
  /\ request.method \notin DOMAIN methods
  /\ BoundRoutes(last.out.req) = {3}

\* The route (1-based position) of the first candidate of the latest dispatch
\* whose Match accepts the request, 0 when no candidate's Match does.
Winner ==
  LET cands == Candidates(request.method, Path(request.ctx))
      ok == {k \in 1..Len(cands) :
               ~Match(routes[cands[k] + 1].matcher, request).isNil}
  IN  IF ok = {} THEN 0 ELSE cands[Min(ok)] + 1

\* C21: when a candidate's Match succeeds, the request the dispatch returns
\* binds the matcher and the handler registered together at the index of the
\* first such candidate, and every value read from the request that Match
\* returned (the path, the map of all names, each name) reads the same from
\* the returned request.
RouteBindsWinner ==
  (Routed /\ Winner # 0) =>
    LET rt == routes[Winner]
        req2 == Match(rt.matcher, request)
    IN  /\ last.out.kind = "return"
        /\ BoundMatcher(last.out.req) = MatcherVal(rt.matcher)
        /\ BoundHandler(last.out.req) = HandlerVal(intHandler(Winner - 1))
        /\ rt.handler = intHandler(Winner - 1)
        /\ last.out.req.method = req2.method
        /\ SubSeq(last.out.req.ctx, 1, Len(req2.ctx)) = req2.ctx
        /\ \A key \in OtherKeys :
             Value(last.out.req.ctx, key) = Value(req2.ctx, key)

\* A dispatch on three routes bound the second one, a pattern whose Match
\* bound the name n, which the incoming request did not bind, and the
\* remaining path; the third route accepts the request as well.
RouteBindsWinnerWitness ==
  /\ Routed
  /\ Len(routes) = 3
  /\ Winner = 2
  /\ routes[2].matcher = New(<<"/", ":", "n">>, <<>>)
  /\ 3 \in Accepting(request)
  /\ Value(request.ctx, nameKey(<<"n">>)) = Nil
  /\ Value(last.out.req.ctx, nameKey(<<"n">>)) = StringVal(<<"b">>)
  /\ Value(last.out.req.ctx, pathKey) = StringVal(<<>>)
  /\ Value(request.ctx, pathKey) = StringVal(<<"/", "b">>)

\* The goroutines inside Route, and those that have returned from it or
\* panicked in it.
InFlight == {d \in DOMAIN disp : disp[d].pc \notin {"idle", "done"}}
Finished == {d \in DOMAIN disp : disp[d].pc = "done"}

\* C22: once the registrations are over, under every interleaving of the
\* steps of the goroutines that call Route on the same router, no step of
\* a dispatch changes the route list, the wildcard trie or a per-method trie,
\* and every dispatch ends as the same call ends when it runs alone.
DispatchesIndependent ==
  [][/\ disp' # disp =>
          /\ routes' = routes
          /\ methods' = methods
          /\ wildcard' = wildcard
     /\ \A d \in DOMAIN disp' :
          disp'[d].pc = "done" =>
            disp'[d].out = Route(R, disp'[d].req).out]_vars

\* A goroutine returned from a dispatch that walked below the root of a
\* per-method trie and bound the second route, its last step taken while
\* another goroutine was in the loop over the candidates of a request with
\* another method.
DispatchesIndependentWitness ==
  /\ last = [op |-> "step", d |-> 1]
  /\ disp[1].pc = "done"
  /\ disp[1].out.kind = "return"
  /\ BoundHandler(disp[1].out.req) = HandlerVal(intHandler(1))
  /\ disp[1].req.method = "POST"
  /\ "POST" \in DOMAIN methods
  /\ disp[2].pc = "try"
  /\ disp[2].k = 1
  /\ disp[2].req.method = "GET"
  /\ Len(disp[2].tn.at) > 0

-----------------------------------------------------------------------------
(* Properties of the tries *)

\* The nodes of a trie: its root and every node below it.
RECURSIVE Nodes(_)
Nodes(tn) ==
  {tn} \cup UNION {Nodes(tn.children[k].node) : k \in 1..Len(tn.children)}

\* The route indices inserted into a trie: those some node of it lists.
Inserted(tn) ==
  UNION {{n.routes[k] : k \in 1..Len(n.routes)} : n \in Nodes(tn)}

\* The paths the properties of the registrations are evaluated on.
RegPaths ==
  { <<>>, <<"/">>, <<"/", "a">>, <<"/", "b">>, <<"/", "c">>,
    <<"/", "a", "b">>, <<"/", "a", "c">>, <<"/", "a", "a">>,
    <<"/", "a", "b", "c">>, <<"/", "b", "a">>, <<"a">>, <<"a", "/">>,
    <<"b">> }

\* C23: in every trie, a route inserted into the trie is in the candidate
\* list of every path that has the route's Prefix() as a literal prefix.
TrieCompleteness ==
  \A tn \in AllTries : \A i \in Inserted(tn) : \A path \in RegPaths :
    HasPrefix(path, Prefix(routes[i + 1].matcher))
      => InSeq(i, walk(tn, path).routes)

\* After three registrations the wildcard trie has a node with two children
\* below its root, made by a split, and a route registered last whose
\* prefix ends at that node is a candidate at the node and at both
\* children.
TrieCompletenessWitness ==
  /\ last.op = "Handle"
  /\ Len(routes) = 3
  /\ Prefix(routes[3].matcher) = <<"/", "a">>
  /\ Len(wildcard.children) = 1
  /\ wildcard.children[1].prefix = <<"/", "a">>
  /\ Len(wildcard.children[1].node.children) = 2
  /\ walk(wildcard, <<"/", "a">>).routes = <<2>>
  /\ walk(wildcard, <<"/", "a", "b">>).routes = <<0, 2>>
  /\ walk(wildcard, <<"/", "a", "c">>).routes = <<1, 2>>

\* The routes registered so far (0-based indices) with no method set, and
\* those whose method set holds m.
Unrestricted ==
  {i \in 0..(Len(routes) - 1) : Methods(routes[i + 1].matcher).isNil}
RestrictedTo(m) ==
  {i \in 0..(Len(routes) - 1) :
     LET ms == Methods(routes[i + 1].matcher)
     IN  ~ms.isNil /\ m \in ms.set}

\* C24: the routes inserted into the trie of a method are the unrestricted
\* routes registered so far, those registered before the trie was made
\* included, and the routes whose method set holds the method; the routes
\* inserted into the wildcard trie are the unrestricted ones; and a dispatch
\* of a request whose method has no trie returns what the loop over the
\* candidates of the wildcard trie returns.
TrieContents ==
  /\ \A m \in DOMAIN methods :
       Inserted(methods[m]) = Unrestricted \cup RestrictedTo(m)
  /\ Inserted(wildcard) = Unrestricted
  /\ (Routed /\ request.method \notin DOMAIN methods) =>
       /\ last.out.kind = "return"
       /\ last.out.req =
            firstMatch(routes, walk(wildcard, Path(request.ctx)).routes,
                       request)

\* After an unrestricted route, a route restricted to GET and HEAD, and
\* another unrestricted route, the tries of GET and HEAD hold all three and
\* the wildcard trie the first and the third; a POST request was dispatched
\* and bound the third route.
TrieContentsWitness ==
  /\ Routed
  /\ Len(routes) = 3
  /\ Unrestricted = {0, 2}
  /\ DOMAIN methods = {"GET", "HEAD"}
  /\ Inserted(methods["GET"]) = {0, 1, 2}
  /\ Inserted(wildcard) = {0, 2}
  /\ request.method = "POST"
  /\ BoundHandler(last.out.req) = HandlerVal(intHandler(2))

\* The numbers of s grow from each element to the next.
Ascending(s) == \A k \in 1..(Len(s) - 1) : s[k] < s[k + 1]

\* C25: the routes of every node of every trie, the nodes made by splits and
\* by cloning included, are route indices in strictly ascending order, none
\* twice.
ActiveSetsAscending ==
  \A tn \in AllTries : \A n \in Nodes(tn) :
    /\ Ascending(n.routes)
    /\ \A k \in 1..Len(n.routes) : n.routes[k] \in 0..(Len(routes) - 1)

\* The trie of a method, cloned from a wildcard trie that held a route, has
\* a node made by a split that lists two routes and a child of it that lists
\* three.
ActiveSetsAscendingWitness ==
  /\ last.op = "Handle"
  /\ Len(routes) = 3
  /\ Unrestricted = {0}
  /\ \E m \in DOMAIN methods :
       /\ Len(methods[m].children) = 1
       /\ methods[m].children[1].node.routes = <<0, 2>>
       /\ \E k \in 1..Len(methods[m].children[1].node.children) :
            methods[m].children[1].node.children[k].node.routes = <<0, 1, 2>>

\* C26: in every node of every trie, every edge label is non-empty, the
\* children are in strictly ascending order of the first byte of their
\* labels, so no two labels of a node start with the same byte, and the
\* binary search for the first byte of a child's label stops at that child.
ChildrenSorted ==
  \A tn \in AllTries : \A n \in Nodes(tn) :
    /\ \A k \in 1..Len(n.children) : Len(n.children[k].prefix) > 0
    /\ \A k \in 1..(Len(n.children) - 1) :
         Ord[n.children[k].prefix[1]] < Ord[n.children[k + 1].prefix[1]]
    /\ \A k \in 1..Len(n.children) :
         searchChild(n.children, n.children[k].prefix[1], 0, Len(n.children))
           = k - 1

\* The root of the wildcard trie has two children, the one registered first
\* in second place, and the node below its first edge has two children
\* made by a split, again the one registered first in second place.
ChildrenSortedWitness ==
  /\ last.op = "Handle"
  /\ Len(routes) = 3
  /\ Prefix(routes[1].matcher) = <<"a">>
  /\ Prefix(routes[2].matcher) = <<"/", "a", "c">>
  /\ Prefix(routes[3].matcher) = <<"/", "a", "b">>
  /\ Len(wildcard.children) = 2
  /\ wildcard.children[1].prefix = <<"/", "a">>
  /\ wildcard.children[2].prefix = <<"a">>
  /\ Len(wildcard.children[1].node.children) = 2
  /\ wildcard.children[1].node.children[1].prefix = <<"b">>
  /\ wildcard.children[1].node.children[2].prefix = <<"c">>

\* The candidate list of path in the trie tn.
CandidatesIn(tn, path) == walk(tn, path).routes

\* The trie of method m as the registration under way found it: the
\* method's own, or the wildcard trie it is cloned from.
TrieBefore(m) == IF m \in DOMAIN methods THEN methods[m] ELSE wildcard

\* C27: an insertion add(prefix, idx) into a trie, one that splits an edge
\* included, appends idx to the candidate list of every path that has prefix
\* as a literal prefix and leaves the candidate list of every other path as
\* it was.
InsertionFrame ==
  [][routes' # routes =>
       LET idx == Len(routes)
           prefix == Prefix(routes'[idx + 1].matcher)
           expected(before, path) ==
             IF HasPrefix(path, prefix)
             THEN Append(CandidatesIn(before, path), idx)
             ELSE CandidatesIn(before, path)
       IN  \A path \in RegPaths :
             /\ idx \in Inserted(wildcard') =>
                  CandidatesIn(wildcard', path) = expected(wildcard, path)
             /\ \A m \in DOMAIN methods' :
                  idx \in Inserted(methods'[m]) =>
                    CandidatesIn(methods'[m], path)
                      = expected(TrieBefore(m), path)]_vars

\* The third registration split the edge that led to the first route: the
\* third route is the last candidate of the paths that have its prefix and
\* no candidate of the others, whose candidates are those of before.
InsertionFrameWitness ==
  /\ last.op = "Handle"
  /\ Len(routes) = 3
  /\ Unrestricted = {0, 1, 2}
  /\ Prefix(routes[1].matcher) = <<"/", "a", "b">>
  /\ Prefix(routes[2].matcher) = <<"/", "b">>
  /\ Prefix(routes[3].matcher) = <<"/", "a">>
  /\ CandidatesIn(wildcard, <<"/", "a", "b">>) = <<0, 2>>
  /\ CandidatesIn(wildcard, <<"/", "a", "c">>) = <<2>>
  /\ CandidatesIn(wildcard, <<"/", "b">>) = <<1>>
  /\ CandidatesIn(wildcard, <<"/">>) = <<>>

\* The methods of the requests and of the method sets of the routes.
AllMethods == ReqMethods \cup {"PUT", "OHAI"}

\* C28: a registration of a route restricted to a method set leaves the
\* wildcard trie and the trie of every method outside the set as they were,
\* gives no method outside the set a trie, and so leaves the candidate list
\* of every path as it was for every request method outside the set.
RestrictedRegistrationFrame ==
  [][(routes' # routes /\ ~Methods(routes'[Len(routes')].matcher).isNil) =>
       LET M == Methods(routes'[Len(routes')].matcher).set
           after == Router(routes', methods', wildcard')
       IN  /\ wildcard' = wildcard
           /\ DOMAIN methods' = DOMAIN methods \cup M
           /\ \A m \in DOMAIN methods \ M : methods'[m] = methods[m]
           /\ \A m \in AllMethods \ M : \A path \in RegPaths :
                CandidatesIn(selectTrie(after, m), path)
                  = CandidatesIn(selectTrie(R, m), path)]_vars

\* The third registration, of a route restricted to GET, made the trie of
\* GET from a wildcard trie that held a route, beside the tries of POST and
\* PUT made by the second: the third route is in the trie of GET alone.
RestrictedRegistrationFrameWitness ==
  /\ last.op = "Handle"
  /\ Len(routes) = 3
  /\ Unrestricted = {0}
  /\ Methods(routes[2].matcher) = MethodSet({"POST", "PUT"})
  /\ Methods(routes[3].matcher) = MethodSet({"GET"})
  /\ DOMAIN methods = {"GET", "POST", "PUT"}
  /\ Inserted(methods["GET"]) = {0, 2}
  /\ Inserted(methods["POST"]) = {0, 1}
  /\ Inserted(wildcard) = {0}
  /\ CandidatesIn(methods["GET"], <<"/", "b">>)
       # CandidatesIn(wildcard, <<"/", "b">>)

-----------------------------------------------------------------------------
(* Properties of the patterns *)

\* The path of the request under test.
ReqPath == Path(request.ctx)

\* The method set the construction of the pattern under test configures:
\* that of its constructor, or of the last WithMethod option given to New.
ConfiguredMethods ==
  CASE pat.ctor = "Get" -> MethodSet({"GET", "HEAD"})
    [] pat.ctor = "Post" -> MethodSet({"POST"})
    [] pat.ctor = "Put" -> MethodSet({"PUT"})
    [] pat.ctor = "Delete" -> MethodSet({"DELETE"})
    [] pat.ctor = "Head" -> MethodSet({"HEAD"})
    [] pat.ctor = "New" ->
         IF Len(pat.opts) = 0 THEN NilMethods
         ELSE MethodSet(pat.opts[Len(pat.opts)].methods)

\* C4: Methods() is exactly the configured method set; with a set
\* configured, a request whose method is not in it gets no match whatever
\* its path; with none configured (Methods() nil), the request matches or
\* not alike under every method.
MethodRestriction ==
  last.op = "Match" =>
    /\ Methods(pat.p) = ConfiguredMethods
    /\ (~ConfiguredMethods.isNil /\ request.method \notin ConfiguredMethods.set)
         => last.out.isNil
    /\ ConfiguredMethods.isNil =>
         /\ Methods(pat.p).isNil
         /\ \A m \in ReqMethods \cup {"PUT", "OHAI"} :
              Match(pat.p, OfMethod(request, m)).isNil = last.out.isNil

\* A pattern given two WithMethod options, the last one for POST, rejected a
\* GET request for a path it accepts from a POST request.
MethodRestrictionWitness ==
  /\ last.op = "Match"
  /\ pat.ctor = "New"
  /\ Len(pat.opts) = 2
  /\ request.method = "GET"
  /\ last.out.isNil
  /\ ~Match(pat.p, OfMethod(request, "POST")).isNil

\* The method of the request under test passes the pattern's method check.
MethodAllowed ==
  Methods(pat.p).isNil \/ request.method \in Methods(pat.p).set

\* C8: a pattern that is no wildcard and has no capture matches a request
\* whose method it allows exactly when the path equals the pattern text.
LiteralMatchesItself ==
  (/\ last.op = "Match"
   /\ ~pat.p.wildcard
   /\ Len(pat.p.specs) = 0
   /\ MethodAllowed)
    => (~last.out.isNil <=> ReqPath = pat.raw)

\* The pattern "/a" rejected the path "/a/", of which it is a prefix.
LiteralMatchesItselfWitness ==
  /\ last.op = "Match"
  /\ pat.raw = <<"/", "a">>
  /\ pat.p.methods.isNil
  /\ ReqPath = <<"/", "a", "/">>
  /\ last.out.isNil

\* The raw span Match cut from the path for the capture at position i
\* (1-based, in the order of the pattern text).
RawSpan(i) == matchRaw(pat.p, request).scratch[i]

\* The value the returned request binds to the capture called name.
Bound(name) == Value(last.out.ctx, nameKey(name))

\* The pattern under test is the text raw with no method set configured,
\* the request path is path.
Case(raw, path) ==
  /\ last.op = "Match"
  /\ pat.raw = raw
  /\ Methods(pat.p).isNil
  /\ ReqPath = path

\* C9: when Match succeeds every capture's raw span has at least one byte,
\* and so has the value bound to its name; "/:n" does not match "/",
\* "/a/:n" does not match "/a/", and "/:f.:e" matches neither "/.a" nor
\* "/a.".
CapturesNeverEmpty ==
  /\ (last.op = "Match" /\ ~last.out.isNil) =>
       /\ \A i \in 1..Len(pat.p.specs) : Len(RawSpan(i)) >= 1
       /\ \A k \in 1..Len(pat.p.specs) :
            /\ Bound(pat.p.specs[k].name).t = "string"
            /\ Len(Bound(pat.p.specs[k].name).v) >= 1
  /\ Case(<<"/", ":", "n">>, <<"/">>) => last.out.isNil
  /\ Case(<<"/", "a", "/", ":", "n">>, <<"/", "a", "/">>) => last.out.isNil
  /\ Case(<<"/", ":", "f", ".", ":", "e">>, <<"/", ".", "a">>) => last.out.isNil
  /\ Case(<<"/", ":", "f", ".", ":", "e">>, <<"/", "a", ".">>) => last.out.isNil

\* A pattern with two captures matched a path of four bytes: each span is
\* one byte long.
CapturesNeverEmptyWitness ==
  /\ last.op = "Match"
  /\ ~last.out.isNil
  /\ Len(pat.p.specs) = 2
  /\ Len(ReqPath) = 4
  /\ Len(RawSpan(1)) = 1
  /\ Len(RawSpan(2)) = 1

\* The pattern text the compiler scans: without the star of a wildcard.
PatText == IF pat.p.wildcard THEN Slice(pat.raw, 0, Len(pat.raw) - 1) ELSE pat.raw

\* The break byte of the capture called name is bc: name stands in the
\* pattern text after a break byte and a colon, and bc is the byte after it,
\* or '/' when the text ends with it.
BreakFollows(name, bc) ==
  \E e \in (Len(name) + 2)..Len(PatText) :
    /\ SubSeq(PatText, e - Len(name) + 1, e) = name
    /\ PatText[e - Len(name)] = ":"
    /\ PatText[e - Len(name) - 1] \in Breaks
    /\ bc = IF e = Len(PatText) THEN "/" ELSE PatText[e + 1]
    /\ e < Len(PatText) => PatText[e + 1] \in Breaks

\* The part of the path Match has consumed after i captures: the literals
\* and the raw spans in turn.
RECURSIVE Consumed(_)
Consumed(i) ==
  IF i = 0 THEN <<>>
  ELSE Consumed(i - 1) \o pat.p.literals[i] \o RawSpan(i)

\* C10: the break byte of a capture is the byte after its name in the
\* pattern text, '/' when the name ends the text; when Match succeeds a
\* capture's raw span starts after the literal before it, holds neither its
\* break byte nor '/', and ends at the end of the path or before one of
\* these two bytes.  "/:f.:e" binds f = "a" and e = "a.a" on "/a.a.a" and
\* matches none of "/a/a", "/a;a" and "/a.a/"; "/:n" binds n = "a.;" on
\* "/a.;" and n = "a,a" on "/a,a".
BreakByteEndsSpan ==
  last.op = "Match" =>
    /\ \A k \in 1..Len(pat.p.specs) :
         BreakFollows(pat.p.specs[k].name,
                      pat.p.breaks[pat.p.specs[k].idx + 1])
    /\ ~last.out.isNil =>
         \A i \in 1..Len(pat.p.specs) :
           LET stop == {pat.p.breaks[i], "/"}
               upto == Consumed(i)
           IN  /\ HasPrefix(ReqPath, upto)
               /\ \A j \in 1..Len(RawSpan(i)) : RawSpan(i)[j] \notin stop
               /\ Len(ReqPath) = Len(upto) \/ ReqPath[Len(upto) + 1] \in stop
    /\ Case(<<"/", ":", "f", ".", ":", "e">>, <<"/", "a", ".", "a", ".", "a">>) =>
         /\ ~last.out.isNil
         /\ Bound(<<"f">>) = StringVal(<<"a">>)
         /\ Bound(<<"e">>) = StringVal(<<"a", ".", "a">>)
    /\ Case(<<"/", ":", "f", ".", ":", "e">>, <<"/", "a", "/", "a">>) => last.out.isNil
    /\ Case(<<"/", ":", "f", ".", ":", "e">>, <<"/", "a", ";", "a">>) => last.out.isNil
    /\ Case(<<"/", ":", "f", ".", ":", "e">>, <<"/", "a", ".", "a", "/">>) => last.out.isNil
    /\ Case(<<"/", ":", "n">>, <<"/", "a", ".", ";">>) =>
         /\ ~last.out.isNil
         /\ Bound(<<"n">>) = StringVal(<<"a", ".", ";">>)
    /\ Case(<<"/", ":", "n">>, <<"/", "a", ",", "a">>) =>
         /\ ~last.out.isNil
         /\ Bound(<<"n">>) = StringVal(<<"a", ",", "a">>)

\* "/:f.:e" matched "/a.a.a": the span of f ends at the first '.', the span
\* of e, which ends the pattern, runs over the second.
BreakByteEndsSpanWitness ==
  /\ Case(<<"/", ":", "f", ".", ":", "e">>, <<"/", "a", ".", "a", ".", "a">>)
  /\ ~last.out.isNil
  /\ pat.p.breaks = <<".", "/">>
  /\ RawSpan(1) = <<"a">>
  /\ RawSpan(2) = <<"a", ".", "a">>

\* The last literal of the pattern under test.
LastLiteral == pat.p.literals[Len(pat.p.specs) + 1]

RemainingPathEmpty ==
  (last.op = "Match" /\ ~last.out.isNil) =>
    /\ ~pat.p.wildcard =>
         /\ Value(last.out.ctx, pathKey) = StringVal(<<>>)
         /\ Path(last.out.ctx) = <<>>
    /\ Path(last.out.ctx) # <<>> => pat.p.wildcard

\* "/a/:n" matched "/a/a": the incoming context carries "/a/a", the
\* returned one reads "".
RemainingPathEmptyWitness ==
  /\ Case(<<"/", "a", "/", ":", "n">>, <<"/", "a", "/", "a">>)
  /\ ~last.out.isNil
  /\ Path(request.ctx) = <<"/", "a", "/", "a">>
  /\ Path(last.out.ctx) = <<>>

\* The value the returned request binds to the capture at position i
\* (1-based, in the order of the pattern text).
BoundAt(i) ==
  LET k == CHOOSE k \in 1..Len(pat.p.specs) : pat.p.specs[k].idx = i - 1
  IN  Bound(pat.p.specs[k].name)

\* C13: after a match the value of every capture is its raw span
\* percent-decoded; when the path fits the pattern but the raw span of some
\* capture holds a '%' that two hex digits do not follow, Match returns nil.
\* "/:n" binds n = "/" on "/%2f" and n = " a" on "/%20a", and matches
\* neither "/%n" nor "/a%".
CapturesDecoded ==
  last.op = "Match" =>
    /\ ~last.out.isNil =>
         \A i \in 1..Len(pat.p.specs) :
           /\ ~unescape(RawSpan(i)).err
           /\ BoundAt(i) = StringVal(unescape(RawSpan(i)).s)
    /\ (/\ matchRaw(pat.p, request).ok
        /\ \E i \in 1..Len(pat.p.specs) : unescape(RawSpan(i)).err)
         => last.out.isNil
    /\ Case(<<"/", ":", "n">>, <<"/", "%", "2", "f">>) =>
         /\ ~last.out.isNil
         /\ Bound(<<"n">>) = StringVal(<<"/">>)
    /\ Case(<<"/", ":", "n">>, <<"/", "%", "2", "0", "a">>) =>
         /\ ~last.out.isNil
         /\ Bound(<<"n">>) = StringVal(<<" ", "a">>)
    /\ Case(<<"/", ":", "n">>, <<"/", "%", "n">>) => last.out.isNil
    /\ Case(<<"/", ":", "n">>, <<"/", "a", "%">>) => last.out.isNil

\* "/:n" fits "/%n" with the raw span "%n", which does not decode: Match
\* returned nil.
CapturesDecodedWitness ==
  /\ Case(<<"/", ":", "n">>, <<"/", "%", "n">>)
  /\ matchRaw(pat.p, request).ok
  /\ RawSpan(1) = <<"%", "n">>
  /\ last.out.isNil

\* The positions of the pattern text where a capture starts: a break byte,
\* then a colon, then a byte of a name.
CaptureStarts ==
  {b \in 1..(Len(PatText) - 2) :
     /\ PatText[b] \in Breaks
     /\ PatText[b + 1] = ":"
     /\ PatText[b + 2] \notin Breaks}

\* The first literal segment of the pattern text: up to and including the
\* break byte before the first capture, all of it when there is no capture.
FirstLiteral ==
  IF CaptureStarts = {} THEN PatText
  ELSE SubSeq(PatText, 1, Min(CaptureStarts))

\* C14: Prefix() is the first literal segment of the pattern, and a path
\* that Match accepts starts with it.  Prefix() is "/" for "/", "/a/" for
\* "/a/:n" and for "/a/*", "/a." for "/a.:e" and "/" for "/:n/a".
PrefixIsFirstLiteral ==
  last.op = "Match" =>
    /\ Prefix(pat.p) = FirstLiteral
    /\ ~last.out.isNil => HasPrefix(ReqPath, Prefix(pat.p))
    /\ pat.raw = <<"/">> => Prefix(pat.p) = <<"/">>
    /\ pat.raw = <<"/", "a", "/", ":", "n">> => Prefix(pat.p) = <<"/", "a", "/">>
    /\ pat.raw = <<"/", "a", "/", "*">> => Prefix(pat.p) = <<"/", "a", "/">>
    /\ pat.raw = <<"/", "a", ".", ":", "e">> => Prefix(pat.p) = <<"/", "a", ".">>
    /\ pat.raw = <<"/", ":", "n", "/", "a">> => Prefix(pat.p) = <<"/">>

\* "/a.:e" matched "/a.a": its Prefix() "/a." is shorter than the pattern
\* and starts the path.
PrefixIsFirstLiteralWitness ==
  /\ Case(<<"/", "a", ".", ":", "e">>, <<"/", "a", ".", "a">>)
  /\ ~last.out.isNil
  /\ Prefix(pat.p) = <<"/", "a", ".">>

\* The i-th position (from 1) of the pattern text where a capture starts.
NthStart(i) ==
  CHOOSE b \in CaptureStarts :
    Cardinality({x \in CaptureStarts : x <= b}) = i

\* The name of the i-th capture of the pattern text: the bytes after the
\* colon up to the next break byte or the end of the text.
NameAt(i) ==
  LET b == NthStart(i)
      e == Min({x \in (b + 2)..Len(PatText) :
                  x = Len(PatText) \/ PatText[x + 1] \in Breaks})
  IN  SubSeq(PatText, b + 2, e)

\* The names looked up in a returned request.
LookupNames == {<<"n">>, <<"c">>, <<"f">>, <<"e">>, <<"b">>, <<"a">>}

\* The names the pattern under test captures.
PatNames == {pat.p.specs[k].name : k \in 1..Len(pat.p.specs)}

\* C15: after a match, the name of the i-th capture of the pattern text
\* reads as the decoded i-th raw span, also when the enclosing context
\* binds that name; a name the pattern does not capture reads as it does
\* from the enclosing context.  "/:n/:c" on "/;/a" binds n = ";" and
\* c = "a".
NameLookup ==
  (last.op = "Match" /\ ~last.out.isNil) =>
    /\ Cardinality(CaptureStarts) = Len(pat.p.specs)
    /\ \A i \in 1..Len(pat.p.specs) :
         Bound(NameAt(i)) = StringVal(unescape(RawSpan(i)).s)
    /\ \A name \in LookupNames \ PatNames :
         Bound(name) = Value(request.ctx, nameKey(name))
    /\ Case(<<"/", ":", "n", "/", ":", "c">>, <<"/", ";", "/", "a">>) =>
         /\ Bound(<<"n">>) = StringVal(<<";">>)
         /\ Bound(<<"c">>) = StringVal(<<"a">>)

\* "/:n/:c", whose names sort against their order in the text, matched
\* "/;/a" in a context that binds n to "b" and b to "ca": n reads ";", c
\* reads "a" and b reads "ca".
NameLookupWitness ==
  /\ Case(<<"/", ":", "n", "/", ":", "c">>, <<"/", ";", "/", "a">>)
  /\ ~last.out.isNil
  /\ Value(request.ctx, nameKey(<<"n">>)) = StringVal(<<"b">>)
  /\ Bound(<<"n">>) = StringVal(<<";">>)
  /\ Bound(<<"c">>) = StringVal(<<"a">>)
  /\ Bound(<<"b">>) = StringVal(<<"c", "a">>)

\* C16: Param on a matched request, for a name that neither the pattern
\* captures nor the enclosing context binds, panics; for a name the pattern
\* captures it returns the decoded span of that capture, and for a name
\* only the enclosing context binds to a string it returns that string.
ParamUnboundPanics ==
  last.op = "Param" =>
    LET enclosing == Value(request.ctx, nameKey(last.name))
    IN  /\ (last.name \notin PatNames /\ enclosing = Nil)
             => last.out.kind = "panic"
        /\ last.name \in PatNames =>
             /\ last.out.kind = "return"
             /\ \E i \in 1..Len(pat.p.specs) :
                  /\ NameAt(i) = last.name
                  /\ last.out.v = unescape(RawSpan(i)).s
        /\ (last.name \notin PatNames /\ enclosing.t = "string") =>
             /\ last.out.kind = "return"
             /\ last.out.v = enclosing.v

\* After "/:n" matched "/a" in a context that binds no name, Param for the
\* name e panicked.
ParamUnboundPanicsWitness ==
  /\ last.op = "Param"
  /\ pat.raw = <<"/", ":", "n">>
  /\ ReqPath = <<"/", "a">>
  /\ last.name = <<"e">>
  /\ Value(request.ctx, nameKey(<<"e">>)) = Nil
  /\ last.out.kind = "panic"

\* C17 as stated: a read of any key from a matched request's context leaves
\* the matched request, the layers of its context and the enclosing context
\* of the incoming request as they were.
OverlayNeverMutated ==
  [][last'.op = "Value" =>
       /\ request' = request
       /\ last'.req = Matched]_vars

\* C29: a read of the map of all names from a matched request's context
\* returns a map that binds the names of the enclosing context's map and
\* the names the pattern captures: each captured name to its decoded
\* capture, also when the enclosing map binds it, every other name as the
\* enclosing map binds it.  It returns nil when the pattern captures nothing
\* and the enclosing context has no such map.
AllNamesMapping ==
  [][(last'.op = "Value" /\ last'.key = allNames) =>
       LET enclosing == Value(request.ctx, allNames)
           base == IF enclosing = Nil THEN <<>> ELSE enclosing.v
       IN  IF enclosing = Nil /\ Len(pat.p.specs) = 0
           THEN last'.out = Nil
           ELSE /\ last'.out.t = "map"
                /\ DOMAIN last'.out.v = DOMAIN base \cup PatNames
                /\ \A i \in 1..Len(pat.p.specs) :
                     last'.out.v[NameAt(i)]
                       = StringVal(unescape(RawSpan(i)).s)
                /\ \A name \in DOMAIN base \ PatNames :
                     last'.out.v[name] = base[name]]_vars

\* "/:n/:c" matched "/;/a" in a context whose map of all names binds a to
\* "aa" and c to "n": the map read from the matched request binds a to
\* "aa", c to "a" and n to ";".
AllNamesMappingWitness ==
  /\ last.op = "Value"
  /\ last.key = allNames
  /\ pat.raw = <<"/", ":", "n", "/", ":", "c">>
  /\ ReqPath = <<"/", ";", "/", "a">>
  /\ last.out = MapVal((<<"a">> :> StringVal(<<"a", "a">>))
                         @@ (<<"c">> :> StringVal(<<"a">>))
                         @@ (<<"n">> :> StringVal(<<";">>)))

-----------------------------------------------------------------------------
(* Properties of the Mux *)

\* The events of the latest served request.
Trace == last.out.trace

\* The events "before name" (or "after name") of the names in order.
Events(ev, names) == [i \in 1..Len(names) |-> [ev |-> ev, name |-> names[i]]]

\* The sequence s backwards.
Reverse(s) == [i \in 1..Len(s) |-> s[Len(s) + 1 - i]]

\* The events of a trace that call a handler.
TerminalEvents(trace) ==
  {i \in 1..Len(trace) : trace[i].ev \in {"handler", "notFound"}}

\* The path the Mux routes the request under test on, by the kind of Mux.
EntryPath ==
  IF mux.sub THEN Value(request.ctx, pathKey)
  ELSE StringVal(EscapedPath(request.url))

\* C18 as stated: a request served after Use was called for m1, ..., mn in
\* that order runs before-m1, ..., before-mn, one handler, after-mn, ...,
\* after-m1 after the routing, whatever the request.
MiddlewareOrder ==
  last.op = "ServeHTTP" =>
    /\ Len(Trace) = 2 * Len(uses) + 2
    /\ SubSeq(Trace, 2, Len(uses) + 1) = Events("before", uses)
    /\ Trace[Len(uses) + 2].ev \in {"handler", "notFound"}
    /\ SubSeq(Trace, Len(uses) + 3, Len(Trace))
         = Events("after", Reverse(uses))

\* The same for the requests the router takes: those of a Mux that is no
\* sub-mux and those whose context carries a path.
MiddlewareOrderWithPath ==
  (last.op = "ServeHTTP" /\ EntryPath.t = "string") => MiddlewareOrder

\* The request under test as the Mux routes it: with the path it routes on.
Entered ==
  IF EntryPath.t = "string"
  THEN WithContext(request, WithPath(request.ctx, EntryPath.v))
  ELSE request

\* C19 as stated: every served request is routed once, before anything
\* else, and then exactly one handler is called, once: the handler of the
\* first route that accepts the request, the Mux's not-found handler (which
\* answers 404 unless NotFound set another) when none does.
OneHandlerOnce ==
  last.op = "ServeHTTP" =>
    /\ {i \in 1..Len(Trace) : Trace[i].ev = "Route"} = {1}
    /\ Cardinality(TerminalEvents(Trace)) = 1
    /\ LET e == Trace[CHOOSE i \in TerminalEvents(Trace) : TRUE]
       IN  IF Accepting(Entered) # {}
           THEN /\ e.ev = "handler"
                /\ e.h = routes[Min(Accepting(Entered))].handler
           ELSE /\ e.ev = "notFound"
                /\ e.h = mux.notFound
                /\ e.h \in {httpNotFound, statusHandler(123)}
                /\ e.h = httpNotFound => e.h.code = 404

\* The same for the requests the router takes: those of a Mux that is no
\* sub-mux and those whose context carries a path.
OneHandlerOnceWithPath ==
  (last.op = "ServeHTTP" /\ EntryPath.t = "string") => OneHandlerOnce

\* C20: a Mux that is no sub-mux routes on the escaped path of the URL,
\* whatever path the context carries ("/%20a" for the Path "/ a", RawPath
\* when it encodes Path, the escaped Path when it does not); a sub-mux
\* routes on the path its context carries, whatever the URL.  The handler
\* called reads that path when the matcher of its route leaves the context
\* alone and when no route matched; after a pattern it reads what the
\* pattern left of that path.
RoutesOnEntryPath ==
  (last.op = "ServeHTTP" /\ EntryPath.t = "string") =>
    /\ last.out.kind = "return"
    /\ Trace[1].path = EntryPath
    /\ (~mux.sub /\ request.url.path = <<"/", " ", "a">>)
         => Trace[1].path = StringVal(<<"/", "%", "2", "0", "a">>)
    /\ (~mux.sub /\ request.url.rawPath = <<"/", "%", "2", "f">>)
         => Trace[1].path = StringVal(<<"/", "%", "2", "f">>)
    /\ (~mux.sub /\ request.url.rawPath = <<"/", "%", "n">>)
         => Trace[1].path = StringVal(<<"/", "a">>)
    /\ (mux.sub /\ Path(request.ctx) = <<"/", "a", "/">>)
         => Trace[1].path = StringVal(<<"/", "a", "/">>)
    /\ \A i \in TerminalEvents(Trace) :
         IF \/ Accepting(Entered) = {}
            \/ routes[Min(Accepting(Entered))].matcher.kind = "boolMatcher"
         THEN Trace[i].path = EntryPath
         ELSE /\ Trace[i].path.t = "string"
              /\ HasSuffix(EntryPath.v, Trace[i].path.v)
              /\ Trace[i].path.v # <<>>
                   => routes[Min(Accepting(Entered))].matcher.wildcard

\* A Mux that is no sub-mux served a request whose context carried the path
\* "/a/" and whose URL has the path "/": the route of a boolMatcher took it
\* and its handler read "/".
RoutesOnEntryPathWitness ==
  /\ last.op = "ServeHTTP"
  /\ ~mux.sub
  /\ Path(request.ctx) = <<"/", "a", "/">>
  /\ request.url.path = <<"/">>
  /\ Len(routes) = 2
  /\ routes[2].matcher = boolMatcher(TRUE)
  /\ Len(uses) = 1
  /\ Trace[3] = [ev |-> "handler", h |-> intHandler(1),
                 path |-> StringVal(<<"/">>)]

====
